---- MODULE Spec2Model ----
(***************************************************************************)
(* Model of the schedule assignment system: the feature extractor, the     *)
(* employee profile builder, the compatibility scorer, the constraint      *)
(* accumulator with pre-exclusion, the binary integer program of           *)
(* solve_assignment, fill_unfilled_shifts and the constraint validator,    *)
(* driven in the order of main().                                          *)
(*                                                                         *)
(* Units.  Hours are integers.  A profile keeps the per-category counts    *)
(* and TotalShifts; a probability count/TotalShifts is carried as the      *)
(* integer count * (ProbDen / TotalShifts), and a compatibility score as   *)
(* the integer  score * 100 * ProbDen  (weights are percentages), so the   *)
(* arithmetic of the scorer and of the objective is exact.                 *)
(***************************************************************************)
EXTENDS Integers, Sequences, FiniteSets, TLC

VARIABLES
    historical_data,        \* processed_historical: sequence of shift rows
    employee_profiles,      \* sequence of profile rows (compute_compatibility)
    latest_snapshot,        \* processed_latest: sequence of shift rows
    pc,                     \* position in main()
    assignments,            \* mapping returned to main() by solve_assignment
    solver_log,             \* one record per solve_assignment call that returned:
                            \* its mapping, its solved variables, what it built
    filled_snapshot,        \* result of fill_unfilled_shifts
    constraint_validation,  \* report of validate_constraints(filled_snapshot)
    raw_df,                 \* rows as loaded, before preprocess_schedule
    preprocessed,           \* a preprocess_schedule call: its flag and its result
    feature_input,          \* the rows given to the first extract_shift_features
    feature_runs,           \* results of extract_shift_features, each applied
                            \* to the result before it
    score_log,              \* a get_compatibility_score call: arguments, result
    data_cache,             \* api/endpoints.py _data_cache
    profiles_cache,         \* api/endpoints.py _employee_profiles_cache
    snapshot_cache,         \* api/endpoints.py _latest_snapshot_cache
    req,                    \* the /assign requests in progress: position, locals
    checks                  \* the two validators and solve_assignment called on
                            \* one shift set: the frames and what each call gave

main_vars == <<historical_data, employee_profiles, latest_snapshot, pc, assignments,
               solver_log, filled_snapshot, constraint_validation>>

prep_vars == <<raw_df, preprocessed>>

feat_vars == <<feature_input, feature_runs, score_log>>

api_vars == <<data_cache, profiles_cache, snapshot_cache, req>>

check_vars == <<checks>>

aux_vars == <<prep_vars, feat_vars, api_vars, check_vars>>

vars == <<main_vars, aux_vars>>

----------------------------------------------------------------------------
(* Bounds of the explored inputs *)

MaxUnfilled == 2
MaxHist == 2
MaxRaw == 3
MaxRequests == 2
MaxProfileHist == 3

(* Program constants *)

NaN == 0
HoursLimit == 40
DaysLimit == 5
DailyLimit == 1
DefaultDuration == 8
Week == 0
StatusOptimal == 1
StatusInfeasible == -1
StatusNotSolved == 0
StatusUnbounded == -2
StatusUndefined == -3
(* varValue of a variable the solver gave no value; values are in tenths *)
None == -1
Half == 5
One == 10

Days == 1..7
Employees == {1, 2}

----------------------------------------------------------------------------
(* Generic helpers: sums, and Python dicts with insertion order *)

RECURSIVE SumSeq(_)
SumSeq(s) == IF s = <<>> THEN 0 ELSE Head(s) + SumSeq(Tail(s))

RECURSIVE Fact(_)
Fact(n) == IF n <= 1 THEN 1 ELSE n * Fact(n - 1)

ProbDen == Fact(IF MaxHist > MaxProfileHist THEN MaxHist ELSE MaxProfileHist)

Range(s) == {s[i] : i \in DOMAIN s}

EmptyDict == [keys |-> <<>>, val |-> <<>>]

DictHas(d, k) == k \in DOMAIN d.val

DictGet(d, k, default) == IF DictHas(d, k) THEN d.val[k] ELSE default

DictPut(d, k, v) ==
    IF DictHas(d, k)
    THEN [keys |-> d.keys, val |-> [d.val EXCEPT ![k] = v]]
    ELSE [keys |-> Append(d.keys, k), val |-> (k :> v) @@ d.val]

(* the sequence s without its repeated elements, first occurrences kept *)
RECURSIVE UniqueSeq(_)
UniqueSeq(s) ==
    IF s = <<>> THEN <<>>
    ELSE LET front == UniqueSeq(SubSeq(s, 1, Len(s) - 1))
             last  == s[Len(s)]
         IN  IF last \in Range(front) THEN front ELSE Append(front, last)

(* ascending sort of a finite set of integers *)
RECURSIVE SortedSeq(_)
SortedSeq(S) ==
    IF S = {} THEN <<>>
    ELSE LET m == CHOOSE a \in S : \A b \in S : a <= b
         IN  <<m>> \o SortedSeq(S \ {m})

----------------------------------------------------------------------------
(* Python floats (IEEE 754 binary64, round to nearest, ties to even), as    *)
(* far as the scorer uses them: non-negative values, division of two        *)
(* integers, product, sum, comparison.  A natural number is a sequence of   *)
(* limbs, least significant first, without leading zero limbs; a float is   *)
(* [m, e] of value m * 2^e with m = 0 or 2^52 <= m < 2^53.                   *)

LimbBits == 15
LimbBase == 2^LimbBits
MantissaBits == 53

RECURSIVE BTrim(_)
BTrim(a) ==
    IF a # <<>> /\ a[Len(a)] = 0 THEN BTrim(SubSeq(a, 1, Len(a) - 1)) ELSE a

RECURSIVE BFromNat(_)
BFromNat(n) == IF n = 0 THEN <<>> ELSE <<n % LimbBase>> \o BFromNat(n \div LimbBase)

Limb(a, i) == IF i <= Len(a) THEN a[i] ELSE 0

RECURSIVE BAddC(_, _, _, _)
BAddC(a, b, i, carry) ==
    IF i > Len(a) /\ i > Len(b)
    THEN IF carry = 0 THEN <<>> ELSE <<carry>>
    ELSE LET t == Limb(a, i) + Limb(b, i) + carry
         IN  <<t % LimbBase>> \o BAddC(a, b, i + 1, t \div LimbBase)

BAdd(a, b) == BAddC(a, b, 1, 0)

RECURSIVE BMulSmallC(_, _, _, _)
BMulSmallC(a, k, i, carry) ==
    IF i > Len(a)
    THEN IF carry = 0 THEN <<>> ELSE <<carry>>
    ELSE LET t == a[i] * k + carry
         IN  <<t % LimbBase>> \o BMulSmallC(a, k, i + 1, t \div LimbBase)

BMulSmall(a, k) == BTrim(BMulSmallC(a, k, 1, 0))

RECURSIVE BMulC(_, _)
BMulC(a, b) ==
    IF b = <<>> THEN <<>>
    ELSE BAdd(BMulSmallC(a, b[1], 1, 0), <<0>> \o BMulC(a, Tail(b)))

BMul(a, b) == BTrim(BMulC(a, b))

(* quotient and remainder of a by k, 0 < k < LimbBase, from limb i downwards *)
RECURSIVE BDivSmallC(_, _, _, _)
BDivSmallC(a, k, i, rem) ==
    IF i = 0 THEN [q |-> <<>>, r |-> rem]
    ELSE LET t == rem * LimbBase + a[i]
             rest == BDivSmallC(a, k, i - 1, t % k)
         IN  [q |-> Append(rest.q, t \div k), r |-> rest.r]

BDivSmall(a, k) ==
    LET d == BDivSmallC(a, k, Len(a), 0) IN [q |-> BTrim(d.q), r |-> d.r]

BOdd(a) == a # <<>> /\ a[1] % 2 = 1

RECURSIVE NatBitLen(_)
NatBitLen(n) == IF n = 0 THEN 0 ELSE 1 + NatBitLen(n \div 2)

BitLen(a) == IF a = <<>> THEN 0 ELSE LimbBits * (Len(a) - 1) + NatBitLen(a[Len(a)])

RECURSIVE BShiftLeft(_, _)
BShiftLeft(a, s) ==
    IF a = <<>> \/ s = 0 THEN a
    ELSE IF s >= LimbBits THEN BShiftLeft(<<0>> \o a, s - LimbBits)
    ELSE BMulSmall(a, 2^s)

(* a <= b, from limb i downwards *)
RECURSIVE BLeqC(_, _, _)
BLeqC(a, b, i) ==
    IF i = 0 THEN TRUE
    ELSE IF a[i] # b[i] THEN a[i] < b[i]
    ELSE BLeqC(a, b, i - 1)

BLeq(a, b) == Len(a) < Len(b) \/ (Len(a) = Len(b) /\ BLeqC(a, b, Len(a)))

FZero == [m |-> <<>>, e |-> 0]

(* n * 2^e, followed below the last bit of n by the bit guard and, if       *)
(* sticky, by further non-zero bits, rounded to a float                     *)
RECURSIVE FRound(_, _, _, _)
FRound(n, e, guard, sticky) ==
    IF n = <<>> THEN FZero
    ELSE IF BitLen(n) > MantissaBits + 1
    THEN LET x == (BitLen(n) - MantissaBits) - 1
             k == IF x < LimbBits THEN x ELSE LimbBits - 1
             d == BDivSmall(n, 2^k)
         IN  FRound(d.q, e + k, FALSE, sticky \/ guard \/ d.r # 0)
    ELSE IF BitLen(n) > MantissaBits
    THEN FRound(BDivSmall(n, 2).q, e + 1, BOdd(n), sticky \/ guard)
    ELSE IF guard /\ (sticky \/ BOdd(n))
    THEN FRound(BAdd(n, <<1>>), e, FALSE, FALSE)
    ELSE [m |-> BShiftLeft(n, MantissaBits - BitLen(n)),
          e |-> e - (MantissaBits - BitLen(n))]

(* the float nearest to k / n: Python's k / n of two ints, and the literal  *)
(* 0.25 as FDivNat(25, 100)                                                 *)
FDivNat(k, n) ==
    LET d == BDivSmall(BShiftLeft(BFromNat(k), 5 * LimbBits), n)
    IN  FRound(d.q, -(5 * LimbBits), FALSE, d.r # 0)

FMul(a, b) ==
    IF a.m = <<>> \/ b.m = <<>> THEN FZero
    ELSE FRound(BMul(a.m, b.m), a.e + b.e, FALSE, FALSE)

FAdd(a, b) ==
    IF a.m = <<>> THEN b
    ELSE IF b.m = <<>> THEN a
    ELSE LET lo == IF a.e <= b.e THEN a.e ELSE b.e
         IN  FRound(BAdd(BShiftLeft(a.m, a.e - lo), BShiftLeft(b.m, b.e - lo)),
                    lo, FALSE, FALSE)

FLeq(a, b) ==
    \/ a.m = <<>>
    \/ /\ b.m # <<>>
       /\ \/ a.e < b.e
          \/ a.e = b.e /\ BLeq(a.m, b.m)

FOne == FDivNat(1, 1)

----------------------------------------------------------------------------
(* Preprocessing.  Times of day are whole hours 0..23. *)

has_column(df, col) == \A i \in DOMAIN df : col \in DOMAIN df[i]

(* what a call leaves in place of a frame when it raises ValueError *)
ValueError == <<[raised |-> "ValueError"]>>

(* df.apply(calculate_hours, axis=1) on a frame without rows gives a frame, *)
(* not a column, and the assignment of it to one column raises              *)
handle_midnight_shifts(df) ==
    IF df = <<>> THEN ValueError ELSE
    [i \in DOMAIN df |->
        LET start == df[i].StartHour
            end   == df[i].EndHour
            duration == IF end < start THEN (end + 24) - start ELSE end - start
        IN  [ShiftStartTime_parsed |-> start, ShiftEndTime_parsed |-> end,
             ShiftDurationHours |-> duration] @@ df[i]]

(* the subsequence of df at the positions in keep *)
rows_at(df, keep) ==
    LET idx == SortedSeq(keep) IN [n \in DOMAIN idx |-> df[idx[n]]]

dedupe_key(df, by_date, r) ==
    IF by_date /\ has_column(df, "date")
    THEN <<r.date, r.ScheduleDetailID, r.DayNum>>
    ELSE <<r.ScheduleDetailID, r.DayNum>>

(* a deduplication that keeps the last row of each group *)
deduplicate_keep_last(df, by_date) ==
    rows_at(df, {i \in DOMAIN df :
                    \A j \in DOMAIN df :
                        j > i => dedupe_key(df, by_date, df[j]) # dedupe_key(df, by_date, df[i])})

deduplicate_schedule_details(df, by_date) ==
    rows_at(df, {i \in DOMAIN df :
                    \A j \in DOMAIN df :
                        j < i => dedupe_key(df, by_date, df[j]) # dedupe_key(df, by_date, df[i])})

identify_unfilled_shifts(df) ==
    [i \in DOMAIN df |-> [IsUnfilled |-> (df[i].EmployeeNumber = NaN)] @@ df[i]]

DayNames ==
    <<"Friday", "Saturday", "Sunday", "Monday", "Tuesday", "Wednesday", "Thursday">>

parse_scheduling_weeks(df) ==
    [i \in DOMAIN df |->
        [DayOfWeek |-> IF df[i].DayNum \in DOMAIN DayNames
                       THEN DayNames[df[i].DayNum] ELSE "NaN"] @@ df[i]]

preprocess_schedule(df, deduplicate_by_date) ==
    IF handle_midnight_shifts(df) = ValueError THEN ValueError ELSE
    parse_scheduling_weeks(
        identify_unfilled_shifts(
            deduplicate_schedule_details(handle_midnight_shifts(df),
                                         deduplicate_by_date)))

----------------------------------------------------------------------------
(* Feature extractor *)

(* a time categorisation whose intervals are closed at their upper end *)
categorize_shift_time_closed(hour) ==
    IF 6 <= hour /\ hour <= 12 THEN "morning"
    ELSE IF 12 <= hour /\ hour <= 18 THEN "afternoon"
    ELSE IF 18 <= hour /\ hour <= 22 THEN "evening"
    ELSE "night"

categorize_shift_time(hour) ==
    IF 6 <= hour /\ hour < 12 THEN "morning"
    ELSE IF 12 <= hour /\ hour < 18 THEN "afternoon"
    ELSE IF 18 <= hour /\ hour < 22 THEN "evening"
    ELSE "night"

categorize_duration(hours) ==
    IF hours <= 6 THEN "short"
    ELSE IF hours <= 10 THEN "medium"
    ELSE "long"

calculate_hours(row) ==
    LET start == row.StartHour
        end   == row.EndHour
    IN  IF end < start THEN (end + 24) - start ELSE end - start

(* a feature extractor that computes the duration anew on every call *)
extract_shift_features_recomputing(row) ==
    LET parsed == IF "ShiftStartTime_parsed" \in DOMAIN row
                  THEN row.ShiftStartTime_parsed ELSE row.StartHour
        hours == calculate_hours(row)
        tc == categorize_shift_time(parsed)
        dc == categorize_duration(hours)
    IN  [ShiftStartTime_parsed |-> parsed,
         ShiftTimeCategory |-> tc,
         ShiftDurationHours |-> hours,
         ShiftDurationCategory |-> dc,
         ShiftType |-> tc \o "_" \o dc] @@ row

(* extract_shift_features on one row of a frame; a column the frame lacks   *)
(* is a field the row lacks                                                 *)
extract_shift_features(row) ==
    LET parsed == IF "ShiftStartTime_parsed" \in DOMAIN row
                  THEN row.ShiftStartTime_parsed ELSE row.StartHour
        hours == IF "ShiftDurationHours" \in DOMAIN row
                 THEN row.ShiftDurationHours ELSE calculate_hours(row)
        tc == categorize_shift_time(parsed)
        dc == categorize_duration(hours)
    IN  [ShiftStartTime_parsed |-> parsed,
         ShiftTimeCategory |-> tc,
         ShiftDurationHours |-> hours,
         ShiftDurationCategory |-> dc,
         ShiftType |-> tc \o "_" \o dc] @@ row

----------------------------------------------------------------------------
(* Employee profile builder *)

value_counts(rows, col, universe) ==
    [c \in universe |-> Cardinality({i \in DOMAIN rows : rows[i][col] = c})]

(* a profile builder that takes the shifts of all employees as the total *)
compute_compatibility_total_of_all(historical) ==
    LET filled_shifts == SelectSeq(historical, LAMBDA r : r.EmployeeNumber # NaN)
        feats == [i \in DOMAIN filled_shifts |-> extract_shift_features(filled_shifts[i])]
        unique_employees == UniqueSeq([i \in DOMAIN feats |-> feats[i].EmployeeNumber])
        all_of(col) == {feats[i][col] : i \in DOMAIN feats}
        profile(emp_num) ==
            LET emp_shifts == SelectSeq(feats, LAMBDA r : r.EmployeeNumber = emp_num)
            IN  [EmployeeNumber |-> emp_num,
                 TotalShifts |-> Len(feats),
                 Day |-> value_counts(emp_shifts, "DayNum", all_of("DayNum")),
                 Time |-> value_counts(emp_shifts, "ShiftTimeCategory", all_of("ShiftTimeCategory")),
                 Duration |-> value_counts(emp_shifts, "ShiftDurationCategory", all_of("ShiftDurationCategory")),
                 Job |-> value_counts(emp_shifts, "JobNumber", all_of("JobNumber")),
                 ShiftType |-> value_counts(emp_shifts, "ShiftType", all_of("ShiftType"))]
    IN  IF filled_shifts = <<>> THEN <<>>
        ELSE [i \in DOMAIN unique_employees |-> profile(unique_employees[i])]

(* a profile builder whose categories are those of the employee's own shifts *)
compute_compatibility_own_categories(historical) ==
    LET filled_shifts == SelectSeq(historical, LAMBDA r : r.EmployeeNumber # NaN)
        feats == [i \in DOMAIN filled_shifts |-> extract_shift_features(filled_shifts[i])]
        unique_employees == UniqueSeq([i \in DOMAIN feats |-> feats[i].EmployeeNumber])
        profile(emp_num) ==
            LET emp_shifts == SelectSeq(feats, LAMBDA r : r.EmployeeNumber = emp_num)
                own(col) == {emp_shifts[i][col] : i \in DOMAIN emp_shifts}
            IN  [EmployeeNumber |-> emp_num,
                 TotalShifts |-> Len(emp_shifts),
                 Day |-> value_counts(emp_shifts, "DayNum", own("DayNum")),
                 Time |-> value_counts(emp_shifts, "ShiftTimeCategory", own("ShiftTimeCategory")),
                 Duration |-> value_counts(emp_shifts, "ShiftDurationCategory", own("ShiftDurationCategory")),
                 Job |-> value_counts(emp_shifts, "JobNumber", own("JobNumber")),
                 ShiftType |-> value_counts(emp_shifts, "ShiftType", own("ShiftType"))]
    IN  IF filled_shifts = <<>> THEN <<>>
        ELSE [i \in DOMAIN unique_employees |-> profile(unique_employees[i])]

compute_compatibility(historical) ==
    LET filled_shifts == SelectSeq(historical, LAMBDA r : r.EmployeeNumber # NaN)
        feats == [i \in DOMAIN filled_shifts |-> extract_shift_features(filled_shifts[i])]
        unique_employees == UniqueSeq([i \in DOMAIN feats |-> feats[i].EmployeeNumber])
        all_of(col) == {feats[i][col] : i \in DOMAIN feats}
        profile(emp_num) ==
            LET emp_shifts == SelectSeq(feats, LAMBDA r : r.EmployeeNumber = emp_num)
            IN  [EmployeeNumber |-> emp_num,
                 TotalShifts |-> Len(emp_shifts),
                 Day |-> value_counts(emp_shifts, "DayNum", all_of("DayNum")),
                 Time |-> value_counts(emp_shifts, "ShiftTimeCategory", all_of("ShiftTimeCategory")),
                 Duration |-> value_counts(emp_shifts, "ShiftDurationCategory", all_of("ShiftDurationCategory")),
                 Job |-> value_counts(emp_shifts, "JobNumber", all_of("JobNumber")),
                 ShiftType |-> value_counts(emp_shifts, "ShiftType", all_of("ShiftType"))]
    IN  IF filled_shifts = <<>> THEN <<>>
        ELSE [i \in DOMAIN unique_employees |-> profile(unique_employees[i])]

----------------------------------------------------------------------------
(* Compatibility scorer *)

weights == [day |-> 30, time |-> 25, duration |-> 15, job |-> 20, shift_type |-> 10]

(* one term of the weighted sum: 0 when the profile has no such column *)
score_term(w, profile, dim, value) ==
    IF value \in DOMAIN profile[dim]
    THEN w * profile[dim][value] * (ProbDen \div profile.TotalShifts)
    ELSE 0

(* a scorer with the weights of time and job exchanged *)
get_compatibility_score_swapped(employee_profile, shift_day, time_cat, duration_cat, shift_job, shift_type) ==
      score_term(weights.day, employee_profile, "Day", shift_day)
    + score_term(weights.job, employee_profile, "Time", time_cat)
    + score_term(weights.duration, employee_profile, "Duration", duration_cat)
    + score_term(weights.time, employee_profile, "Job", shift_job)
    + score_term(weights.shift_type, employee_profile, "ShiftType", shift_type)

get_compatibility_score(employee_profile, shift_day, time_cat, duration_cat, shift_job, shift_type) ==
      score_term(weights.day, employee_profile, "Day", shift_day)
    + score_term(weights.time, employee_profile, "Time", time_cat)
    + score_term(weights.duration, employee_profile, "Duration", duration_cat)
    + score_term(weights.job, employee_profile, "Job", shift_job)
    + score_term(weights.shift_type, employee_profile, "ShiftType", shift_type)

(* the float the function returns.  The weights are the literals 0.3,     *)
(* 0.25, 0.15, 0.2, 0.1; the probability stored in a profile column is      *)
(* count / total_shifts; each term is added by  score += weight * prob.     *)
weight_literals ==
    [day |-> <<3, 10>>, time |-> <<25, 100>>, duration |-> <<15, 100>>,
     job |-> <<2, 10>>, shift_type |-> <<1, 10>>]

float_weights ==
    [d \in DOMAIN weight_literals |-> FDivNat(weight_literals[d][1], weight_literals[d][2])]

profile_prob(profile, dim, value) ==
    FDivNat(profile[dim][value], profile.TotalShifts)

add_term(score, w, profile, dim, value) ==
    IF value \in DOMAIN profile[dim]
    THEN FAdd(score, FMul(w, profile_prob(profile, dim, value)))
    ELSE score

get_compatibility_score_float(employee_profile, shift_day, time_cat, duration_cat, shift_job, shift_type) ==
    LET s1 == add_term(FZero, float_weights.day, employee_profile, "Day", shift_day)
        s2 == add_term(s1, float_weights.time, employee_profile, "Time", time_cat)
        s3 == add_term(s2, float_weights.duration, employee_profile, "Duration", duration_cat)
        s4 == add_term(s3, float_weights.job, employee_profile, "Job", shift_job)
    IN  add_term(s4, float_weights.shift_type, employee_profile, "ShiftType", shift_type)

shift_id_of(shift) == <<shift.ScheduleDetailID, shift.DayNum>>

(* the (emp, shift_id) -> score lookup built by solve_assignment from the   *)
(* rows of compute_compatibility_matrix; later rows overwrite earlier ones  *)
compute_compatibility_matrix(unfilled_shifts, profiles) ==
    LET feats == [i \in DOMAIN unfilled_shifts |-> extract_shift_features(unfilled_shifts[i])]
        pairs == {<<i, j>> : i \in DOMAIN feats, j \in DOMAIN profiles}
        key(p) == <<profiles[p[2]].EmployeeNumber, shift_id_of(feats[p[1]])>>
        last(k) == CHOOSE p \in pairs : key(p) = k /\
                       \A q \in pairs : key(q) = k =>
                           (q[1] < p[1] \/ (q[1] = p[1] /\ q[2] <= p[2]))
    IN  [k \in {key(p) : p \in pairs} |->
            LET p == last(k)
                s == feats[p[1]]
            IN  get_compatibility_score(profiles[p[2]], s.DayNum, s.ShiftTimeCategory,
                                        s.ShiftDurationCategory, s.JobNumber, s.ShiftType)]

----------------------------------------------------------------------------
(* Constraint accumulator: the loop over the filled shifts that             *)
(* solve_assignment and both validators run                                 *)

shift_duration(shift) ==
    IF "ShiftDurationHours" \in DOMAIN shift THEN shift.ShiftDurationHours
    ELSE DefaultDuration

EmptyAccumulator ==
    [employee_week_hours |-> EmptyDict,
     employee_week_days  |-> EmptyDict,
     employee_day_shifts |-> EmptyDict]

accumulate_shift(acc, shift) ==
    LET emp == shift.EmployeeNumber
        day == shift.DayNum
        duration == shift_duration(shift)
        key == <<emp, Week>>
        day_key == <<emp, day>>
    IN  [employee_week_hours |->
            DictPut(acc.employee_week_hours, key,
                    DictGet(acc.employee_week_hours, key, 0) + duration),
         employee_week_days |->
            DictPut(acc.employee_week_days, key,
                    DictGet(acc.employee_week_days, key, {}) \cup {day}),
         employee_day_shifts |->
            DictPut(acc.employee_day_shifts, day_key,
                    DictGet(acc.employee_day_shifts, day_key, 0) + 1)]

RECURSIVE accumulate(_)
accumulate(shifts) ==
    IF shifts = <<>> THEN EmptyAccumulator
    ELSE LET prev  == accumulate(SubSeq(shifts, 1, Len(shifts) - 1))
             shift == shifts[Len(shifts)]
         IN  IF shift.EmployeeNumber # NaN THEN accumulate_shift(prev, shift)
             ELSE prev

(* pre-exclusion of the employees over the limits only, not of those at    *)
(* the limits                                                               *)
is_excluded_strict(acc, emp) ==
    \/ DictGet(acc.employee_week_hours, <<emp, Week>>, 0) > HoursLimit
    \/ Cardinality(DictGet(acc.employee_week_days, <<emp, Week>>, {})) > DaysLimit
    \/ \E k \in DOMAIN acc.employee_day_shifts.val :
           k[1] = emp /\ acc.employee_day_shifts.val[k] > DailyLimit

(* a pre-exclusion that forgets the employees with two shifts on a day *)
is_excluded_no_daily(acc, emp) ==
    \/ DictGet(acc.employee_week_hours, <<emp, Week>>, 0) >= HoursLimit
    \/ Cardinality(DictGet(acc.employee_week_days, <<emp, Week>>, {})) >= DaysLimit

(* pre-exclusion: the employees left in the assignable pool, ascending *)
is_excluded(acc, emp) ==
    LET key == <<emp, Week>>
        current_hours == DictGet(acc.employee_week_hours, key, 0)
        current_days == Cardinality(DictGet(acc.employee_week_days, key, {}))
        has_daily_violation ==
            \E k \in DOMAIN acc.employee_day_shifts.val :
                k[1] = emp /\ acc.employee_day_shifts.val[k] > DailyLimit
    IN  \/ current_hours >= HoursLimit
        \/ current_days >= DaysLimit
        \/ has_daily_violation

valid_employees_of(acc, employees) ==
    SelectSeq(employees, LAMBDA emp : ~is_excluded(acc, emp))

----------------------------------------------------------------------------
(* The binary integer program of solve_assignment *)

lpSum(terms) == SumSeq(terms)

shifts_on(shift_ids, day) == SelectSeq(shift_ids, LAMBDA s : s[2] = day)

(* Constraint 1 left out of the program *)
constraint_one_assignee_dropped(xx, valid_employees, shift_ids) == TRUE

(* Constraint 1: each shift assigned to at most one employee *)
constraint_one_assignee(xx, valid_employees, shift_ids) ==
    \A i \in DOMAIN shift_ids :
        lpSum([j \in DOMAIN valid_employees |->
                  xx[<<valid_employees[j], shift_ids[i]>>]]) <= 1

(* Constraint 2 without the hours of the filled shifts *)
constraint_weekly_hours_new_only(xx, acc, valid_employees, shift_ids, shift_durations) ==
    \A j \in DOMAIN valid_employees :
        lpSum([i \in DOMAIN shift_ids |->
                  shift_durations[shift_ids[i]] * xx[<<valid_employees[j], shift_ids[i]>>]])
            <= HoursLimit

(* Constraint 2: weekly hours limit *)
constraint_weekly_hours(xx, acc, valid_employees, shift_ids, shift_durations) ==
    \A j \in DOMAIN valid_employees :
        LET emp == valid_employees[j]
            current_hours == DictGet(acc.employee_week_hours, <<emp, Week>>, 0)
            new_hours == lpSum([i \in DOMAIN shift_ids |->
                             shift_durations[shift_ids[i]] * xx[<<emp, shift_ids[i]>>]])
        IN  current_hours + new_hours <= HoursLimit

(* Constraint 3 with the indicator bounded from above only: nothing forces  *)
(* it on when a shift of the day is taken                                   *)
constraint_day_link_upper_only(xx, dv, valid_employees, shift_ids) ==
    \A j \in DOMAIN valid_employees :
        \A day \in {s[2] : s \in Range(shift_ids)} :
            LET shifts_on_day == shifts_on(shift_ids, day)
            IN  dv[<<valid_employees[j], day>>] <=
                    lpSum([i \in DOMAIN shifts_on_day |->
                              xx[<<valid_employees[j], shifts_on_day[i]>>]])

(* Constraint 3: the day indicators linked to the shift variables, and the  *)
(* work days limit                                                          *)
constraint_day_link(xx, dv, valid_employees, shift_ids) ==
    \A j \in DOMAIN valid_employees :
        \A day \in {s[2] : s \in Range(shift_ids)} :
            LET emp == valid_employees[j]
                shifts_on_day == shifts_on(shift_ids, day)
            IN  /\ \A i \in DOMAIN shifts_on_day :
                       dv[<<emp, day>>] >= xx[<<emp, shifts_on_day[i]>>]
                /\ dv[<<emp, day>>] <=
                       lpSum([i \in DOMAIN shifts_on_day |-> xx[<<emp, shifts_on_day[i]>>]])

(* the work days limit without the days of the filled shifts *)
constraint_work_days_new_only(dv, acc, valid_employees, shift_ids) ==
    \A j \in DOMAIN valid_employees :
        LET days_in_week == SortedSeq({s[2] : s \in Range(shift_ids)})
        IN  lpSum([i \in DOMAIN days_in_week |->
                      dv[<<valid_employees[j], days_in_week[i]>>]]) <= DaysLimit

constraint_work_days(dv, acc, valid_employees, shift_ids) ==
    \A j \in DOMAIN valid_employees :
        LET emp == valid_employees[j]
            current_days ==
                Cardinality(DictGet(acc.employee_week_days, <<emp, Week>>, {}))
            days_in_week == SortedSeq({s[2] : s \in Range(shift_ids)})
        IN  current_days
              + lpSum([i \in DOMAIN days_in_week |-> dv[<<emp, days_in_week[i]>>]])
                <= DaysLimit

(* Constraint 4 without the shifts already filled on the day *)
constraint_daily_shift_new_only(xx, acc, valid_employees, shift_ids) ==
    \A j \in DOMAIN valid_employees :
        \A day \in {s[2] : s \in Range(shift_ids)} :
            LET shifts_on_day == shifts_on(shift_ids, day)
            IN  lpSum([i \in DOMAIN shifts_on_day |->
                          xx[<<valid_employees[j], shifts_on_day[i]>>]]) <= DailyLimit

(* Constraint 4: daily shift limit *)
constraint_daily_shift(xx, acc, valid_employees, shift_ids) ==
    \A j \in DOMAIN valid_employees :
        \A day \in {s[2] : s \in Range(shift_ids)} :
            LET emp == valid_employees[j]
                current_shifts == DictGet(acc.employee_day_shifts, <<emp, day>>, 0)
                shifts_on_day == shifts_on(shift_ids, day)
                new_shifts_sum ==
                    lpSum([i \in DOMAIN shifts_on_day |-> xx[<<emp, shifts_on_day[i]>>]])
            IN  current_shifts + new_shifts_sum <= DailyLimit

(* an objective that counts the assignments instead of weighing them *)
objective_count(xx, compatibility, valid_employees, shift_ids) ==
    lpSum([k \in 1..(Len(valid_employees) * Len(shift_ids)) |->
        xx[<<valid_employees[((k - 1) \div Len(shift_ids)) + 1],
             shift_ids[((k - 1) % Len(shift_ids)) + 1]>>]])

(* Objective: total compatibility, a missing score counting as 0 *)
objective(xx, compatibility, valid_employees, shift_ids) ==
    lpSum([k \in 1..(Len(valid_employees) * Len(shift_ids)) |->
        LET emp == valid_employees[((k - 1) \div Len(shift_ids)) + 1]
            sid == shift_ids[((k - 1) % Len(shift_ids)) + 1]
            c   == IF <<emp, sid>> \in DOMAIN compatibility
                   THEN compatibility[<<emp, sid>>] ELSE 0
        IN  c * xx[<<emp, sid>>]])

(* the solutions of the program: values of the decision variables and of    *)
(* the day indicators that satisfy every constraint                         *)
feasible_solutions(acc, valid_employees, shift_ids, shift_durations) ==
    LET V  == Range(valid_employees)
        S  == Range(shift_ids)
        D  == {s[2] : s \in S}
        XS == {xx \in [V \X S -> {0, 1}] :
                 /\ constraint_one_assignee(xx, valid_employees, shift_ids)
                 /\ constraint_weekly_hours(xx, acc, valid_employees, shift_ids,
                                            shift_durations)
                 /\ constraint_daily_shift(xx, acc, valid_employees, shift_ids)}
    IN  UNION {
          {[x |-> xx, day_vars |-> dv] :
              dv \in {d \in [V \X D -> {0, 1}] :
                        /\ constraint_day_link(xx, d, valid_employees, shift_ids)
                        /\ constraint_work_days(d, acc, valid_employees, shift_ids)}}
          : xx \in XS}

(* what prob.solve() leaves in the variables at status Optimal: any         *)
(* feasible solution of maximal objective                                   *)
optimal_solutions(feasible, compatibility, valid_employees, shift_ids) ==
    LET obj == [sol \in feasible |->
                   objective(sol.x, compatibility, valid_employees, shift_ids)]
        best == CHOOSE b \in {obj[sol] : sol \in feasible} :
                    \A sol \in feasible : obj[sol] <= b
    IN  {sol \in feasible : obj[sol] = best}

(* x[...].varValue, in tenths, of a solved 0/1 solution *)
var_values(xx) == [k \in DOMAIN xx |-> One * xx[k]]

(* an extraction where a later employee replaces the one already mapped *)
RECURSIVE extract_solution_last_wins(_, _, _, _)
extract_solution_last_wins(var_value, valid_employees, shift_ids, k) ==
    IF k = 0 THEN EmptyDict
    ELSE LET prev == extract_solution_last_wins(var_value, valid_employees,
                                                shift_ids, k - 1)
             emp  == valid_employees[((k - 1) \div Len(shift_ids)) + 1]
             sid  == shift_ids[((k - 1) % Len(shift_ids)) + 1]
         IN  IF var_value[<<emp, sid>>] # None /\ var_value[<<emp, sid>>] > Half
             THEN DictPut(prev, sid, emp)
             ELSE prev

(* Extract solution: employees ascending, shifts in row order, a shift      *)
(* keeps the first employee whose variable is set and exceeds 0.5           *)
RECURSIVE extract_solution(_, _, _, _)
extract_solution(var_value, valid_employees, shift_ids, k) ==
    IF k = 0 THEN EmptyDict
    ELSE LET prev == extract_solution(var_value, valid_employees, shift_ids, k - 1)
             emp  == valid_employees[((k - 1) \div Len(shift_ids)) + 1]
             sid  == shift_ids[((k - 1) % Len(shift_ids)) + 1]
         IN  IF /\ var_value[<<emp, sid>>] # None
                /\ var_value[<<emp, sid>>] > Half
                /\ ~DictHas(prev, sid)
             THEN DictPut(prev, sid, emp)
             ELSE prev

(* the status check and the extraction that follow prob.solve() *)
after_solve(status, var_value, valid_employees, shift_ids) ==
    IF status # StatusOptimal /\ status = StatusInfeasible
    THEN EmptyDict
    ELSE extract_solution(var_value, valid_employees, shift_ids,
                          Len(valid_employees) * Len(shift_ids))

(* prob.solve() of a solver that keeps its contract: Infeasible when no     *)
(* solution exists, else Optimal with a solution of maximal objective       *)
prob_solve(feasible, compatibility, valid_employees, shift_ids) ==
    IF feasible = {}
    THEN {[status |-> StatusInfeasible, x |-> <<>>, day_vars |-> <<>>,
           varValue |-> [k \in Range(valid_employees) \X Range(shift_ids) |-> None]]}
    ELSE {[status |-> StatusOptimal, x |-> sol.x, day_vars |-> sol.day_vars,
           varValue |-> var_values(sol.x)] :
          sol \in optimal_solutions(feasible, compatibility, valid_employees,
                                    shift_ids)}

(* the statuses prob.solve() can return, and the values a variable can hold *)
LpStatuses ==
    {StatusOptimal, StatusNotSolved, StatusInfeasible, StatusUnbounded, StatusUndefined}

VarValues == {None, 0, Half, Half + 1, One}

(* prob.solve() of a solver of which nothing is assumed: any status, any    *)
(* value in any variable                                                    *)
prob_solve_any(valid_employees, shift_ids) ==
    {[status |-> st, x |-> <<>>, day_vars |-> <<>>, varValue |-> vv] :
        st \in LpStatuses,
        vv \in [Range(valid_employees) \X Range(shift_ids) -> VarValues]}

NoLog == [built |-> FALSE, n_x |-> 0, n_day |-> 0, solved |-> FALSE, status |-> 0]

(* the outcomes of one call of solve_assignment; any_solver tells which of  *)
(* the two solvers answers prob.solve()                                     *)
solve_assignment_with(any_solver, unfilled_shifts, profiles, filled_shifts) ==
    LET compatibility == compute_compatibility_matrix(unfilled_shifts, profiles)
        employees == SortedSeq({profiles[i].EmployeeNumber : i \in DOMAIN profiles})
        shift_ids == [i \in DOMAIN unfilled_shifts |-> shift_id_of(unfilled_shifts[i])]
        shift_durations ==
            [s \in Range(shift_ids) |->
                LET i == CHOOSE i \in DOMAIN unfilled_shifts :
                             /\ shift_ids[i] = s
                             /\ \A m \in DOMAIN unfilled_shifts :
                                    shift_ids[m] = s => m <= i
                IN  unfilled_shifts[i].ShiftDurationHours]
        acc == accumulate(filled_shifts)
        valid_employees == valid_employees_of(acc, employees)
        n_x == Len(valid_employees) * Len(shift_ids)
        n_day == Len(valid_employees) * Cardinality({s[2] : s \in Range(shift_ids)})
        solved ==
            IF any_solver
            THEN prob_solve_any(valid_employees, shift_ids)
            ELSE prob_solve(feasible_solutions(acc, valid_employees, shift_ids,
                                               shift_durations),
                            compatibility, valid_employees, shift_ids)
    IN  IF profiles = <<>>
        THEN {[raised |-> TRUE, assignments |-> EmptyDict, x |-> <<>>,
               day_vars |-> <<>>, varValue |-> <<>>, log |-> NoLog]}
        ELSE IF valid_employees = <<>>
        THEN {[raised |-> FALSE, assignments |-> EmptyDict, x |-> <<>>,
               day_vars |-> <<>>, varValue |-> <<>>, log |-> NoLog]}
        ELSE {[raised |-> FALSE,
               assignments |-> after_solve(o.status, o.varValue, valid_employees,
                                           shift_ids),
               x |-> o.x, day_vars |-> o.day_vars, varValue |-> o.varValue,
               log |-> [built |-> TRUE, n_x |-> n_x, n_day |-> n_day,
                        solved |-> TRUE, status |-> o.status]] :
              o \in solved}

solve_assignment(unfilled_shifts, profiles, filled_shifts) ==
    solve_assignment_with(FALSE, unfilled_shifts, profiles, filled_shifts)

----------------------------------------------------------------------------
(* Constraint validator *)

EmptyViolations == [weekly_hours |-> <<>>, work_days |-> <<>>, daily_shifts |-> <<>>]

(* a validator that reports the employees at the limits too *)
violations_of_at_limit(acc) ==
    LET h  == acc.employee_week_hours
        d  == acc.employee_week_days
        s  == acc.employee_day_shifts
        hk == SelectSeq(h.keys, LAMBDA k : h.val[k] >= HoursLimit)
        dk == SelectSeq(d.keys, LAMBDA k : Cardinality(d.val[k]) >= DaysLimit)
        sk == SelectSeq(s.keys, LAMBDA k : s.val[k] >= DailyLimit)
    IN  [weekly_hours |->
            [i \in DOMAIN hk |-> [employee |-> hk[i][1], week |-> hk[i][2],
                                  hours |-> h.val[hk[i]], limit |-> HoursLimit]],
         work_days |->
            [i \in DOMAIN dk |-> [employee |-> dk[i][1], week |-> dk[i][2],
                                  days |-> Cardinality(d.val[dk[i]]),
                                  limit |-> DaysLimit]],
         daily_shifts |->
            [i \in DOMAIN sk |-> [employee |-> sk[i][1], day |-> sk[i][2],
                                  count |-> s.val[sk[i]], limit |-> DailyLimit]]]

violations_of(acc) ==
    LET h  == acc.employee_week_hours
        d  == acc.employee_week_days
        s  == acc.employee_day_shifts
        hk == SelectSeq(h.keys, LAMBDA k : h.val[k] > HoursLimit)
        dk == SelectSeq(d.keys, LAMBDA k : Cardinality(d.val[k]) > DaysLimit)
        sk == SelectSeq(s.keys, LAMBDA k : s.val[k] > DailyLimit)
    IN  [weekly_hours |->
            [i \in DOMAIN hk |-> [employee |-> hk[i][1], week |-> hk[i][2],
                                  hours |-> h.val[hk[i]], limit |-> HoursLimit]],
         work_days |->
            [i \in DOMAIN dk |-> [employee |-> dk[i][1], week |-> dk[i][2],
                                  days |-> Cardinality(d.val[dk[i]]),
                                  limit |-> DaysLimit]],
         daily_shifts |->
            [i \in DOMAIN sk |-> [employee |-> sk[i][1], day |-> sk[i][2],
                                  count |-> s.val[sk[i]], limit |-> DailyLimit]]]

validate_constraints(snapshot) ==
    LET filled_shifts == SelectSeq(snapshot, LAMBDA r : r.EmployeeNumber # NaN)
        acc == accumulate(filled_shifts)
        violations == violations_of(acc)
        total_violations == Len(violations.weekly_hours) + Len(violations.work_days)
                              + Len(violations.daily_shifts)
    IN  IF Len(filled_shifts) = 0
        THEN [valid |-> TRUE, violations |-> EmptyViolations, total_violations |-> 0]
        ELSE [valid |-> total_violations = 0,
              violations |-> violations,
              total_violations |-> total_violations,
              employee_week_hours |-> acc.employee_week_hours.val,
              employee_week_days |->
                  [k \in DOMAIN acc.employee_week_days.val |->
                      Cardinality(acc.employee_week_days.val[k])],
              employee_day_shifts |-> acc.employee_day_shifts.val]

----------------------------------------------------------------------------
(* validate_filled_shifts_constraints: the check main() runs on the filled  *)
(* shifts before the optimisation, with its own loop and its own tests      *)

existing_shift(acc, shift) ==
    IF shift.EmployeeNumber = NaN THEN acc
    ELSE LET emp == shift.EmployeeNumber
             day == shift.DayNum
             duration == IF "ShiftDurationHours" \in DOMAIN shift
                         THEN shift.ShiftDurationHours ELSE DefaultDuration
             key == <<emp, Week>>
             day_key == <<emp, day>>
         IN  [employee_week_hours |->
                 DictPut(acc.employee_week_hours, key,
                         DictGet(acc.employee_week_hours, key, 0) + duration),
              employee_week_days |->
                 DictPut(acc.employee_week_days, key,
                         DictGet(acc.employee_week_days, key, {}) \cup {day}),
              employee_day_shifts |->
                 DictPut(acc.employee_day_shifts, day_key,
                         DictGet(acc.employee_day_shifts, day_key, 0) + 1)]

RECURSIVE existing_shifts(_, _)
existing_shifts(filled_shifts, n) ==
    IF n = 0 THEN EmptyAccumulator
    ELSE existing_shift(existing_shifts(filled_shifts, n - 1), filled_shifts[n])

(* a pre-check whose daily test counts the days with one shift as well *)
validate_filled_shifts_constraints_daily_at_limit(filled_shifts) ==
    LET acc == existing_shifts(filled_shifts, Len(filled_shifts))
        h  == acc.employee_week_hours
        d  == acc.employee_week_days
        s  == acc.employee_day_shifts
        hk == SelectSeq(h.keys, LAMBDA k : h.val[k] > 40)
        dk == SelectSeq(d.keys, LAMBDA k : Cardinality(d.val[k]) > 5)
        sk == SelectSeq(s.keys, LAMBDA k : s.val[k] >= 1)
        violations ==
            [weekly_hours |->
                [i \in DOMAIN hk |-> [employee |-> hk[i][1], week |-> hk[i][2],
                                      hours |-> h.val[hk[i]], limit |-> 40]],
             work_days |->
                [i \in DOMAIN dk |-> [employee |-> dk[i][1], week |-> dk[i][2],
                                      days |-> Cardinality(d.val[dk[i]]), limit |-> 5]],
             daily_shifts |->
                [i \in DOMAIN sk |-> [employee |-> sk[i][1], day |-> sk[i][2],
                                      count |-> s.val[sk[i]], limit |-> 1]]]
        total_violations == Len(violations.weekly_hours) + Len(violations.work_days)
                              + Len(violations.daily_shifts)
    IN  IF Len(filled_shifts) = 0
        THEN [valid |-> TRUE, violations |-> EmptyViolations, total_violations |-> 0]
        ELSE [valid |-> total_violations = 0,
              violations |-> violations,
              total_violations |-> total_violations,
              employee_week_hours |-> h.val,
              employee_week_days |-> [k \in DOMAIN d.val |-> Cardinality(d.val[k])],
              employee_day_shifts |-> s.val]

validate_filled_shifts_constraints(filled_shifts) ==
    LET acc == existing_shifts(filled_shifts, Len(filled_shifts))
        h  == acc.employee_week_hours
        d  == acc.employee_week_days
        s  == acc.employee_day_shifts
        hk == SelectSeq(h.keys, LAMBDA k : h.val[k] > 40)
        dk == SelectSeq(d.keys, LAMBDA k : Cardinality(d.val[k]) > 5)
        sk == SelectSeq(s.keys, LAMBDA k : s.val[k] > 1)
        violations ==
            [weekly_hours |->
                [i \in DOMAIN hk |-> [employee |-> hk[i][1], week |-> hk[i][2],
                                      hours |-> h.val[hk[i]], limit |-> 40]],
             work_days |->
                [i \in DOMAIN dk |-> [employee |-> dk[i][1], week |-> dk[i][2],
                                      days |-> Cardinality(d.val[dk[i]]), limit |-> 5]],
             daily_shifts |->
                [i \in DOMAIN sk |-> [employee |-> sk[i][1], day |-> sk[i][2],
                                      count |-> s.val[sk[i]], limit |-> 1]]]
        total_violations == Len(violations.weekly_hours) + Len(violations.work_days)
                              + Len(violations.daily_shifts)
    IN  IF Len(filled_shifts) = 0
        THEN [valid |-> TRUE, violations |-> EmptyViolations, total_violations |-> 0]
        ELSE [valid |-> total_violations = 0,
              violations |-> violations,
              total_violations |-> total_violations,
              employee_week_hours |-> h.val,
              employee_week_days |-> [k \in DOMAIN d.val |-> Cardinality(d.val[k])],
              employee_day_shifts |-> s.val]

----------------------------------------------------------------------------
(* A column the frame lacks: reading it from a row raises KeyError, reading *)
(* it with .get gives the default                                           *)

lacks(rows, field) == \E i \in DOMAIN rows : field \notin DOMAIN rows[i]

(* A frame whose rows lack a column lacks it without rows as well: absent   *)
(* holds the columns the frame lacks.                                       *)
(* solve_assignment reads DayNum and ShiftDurationHours of every unfilled   *)
(* shift, EmployeeNumber of every filled shift and DayNum of those with an  *)
(* employee; ShiftDurationHours of a filled shift is read with .get.        *)
(* Before that compute_compatibility_matrix has extract_shift_features      *)
(* compute a ShiftDurationHours column the unfilled frame lacks, with       *)
(* df.apply, which raises on a frame without rows.                          *)
solve_assignment_raises(unfilled_shifts, unfilled_absent, filled_shifts) ==
    \/ unfilled_shifts = <<>> /\ "ShiftDurationHours" \in unfilled_absent
    \/ lacks(unfilled_shifts, "DayNum")
    \/ lacks(unfilled_shifts, "ShiftDurationHours")
    \/ lacks(filled_shifts, "EmployeeNumber")
    \/ \E i \in DOMAIN filled_shifts :
           filled_shifts[i].EmployeeNumber # NaN /\ "DayNum" \notin DOMAIN filled_shifts[i]

validate_filled_shifts_constraints_raises(filled_shifts) ==
    \/ lacks(filled_shifts, "EmployeeNumber")
    \/ \E i \in DOMAIN filled_shifts :
           filled_shifts[i].EmployeeNumber # NaN /\ "DayNum" \notin DOMAIN filled_shifts[i]

(* validate_constraints reads the EmployeeNumber column before any row *)
validate_constraints_raises(snapshot, absent) ==
    \/ "EmployeeNumber" \in absent
    \/ lacks(snapshot, "EmployeeNumber")
    \/ \E i \in DOMAIN snapshot :
           snapshot[i].EmployeeNumber # NaN /\ "DayNum" \notin DOMAIN snapshot[i]

----------------------------------------------------------------------------
(* fill_unfilled_shifts *)

drop_duplicates(rows) ==
    LET keep == {i \in DOMAIN rows :
                    \A j \in DOMAIN rows : j < i => shift_id_of(rows[j]) # shift_id_of(rows[i])}
        idx  == SortedSeq(keep)
    IN  [n \in DOMAIN idx |-> rows[idx[n]]]

(* an application that sets the employee and leaves the unfilled flag *)
RECURSIVE apply_assignments_flag_kept(_, _, _)
apply_assignments_flag_kept(result, mapping, n) ==
    IF n = 0 THEN result
    ELSE LET prev == apply_assignments_flag_kept(result, mapping, n - 1)
             sid  == mapping.keys[n]
             matching_indices ==
                 {i \in DOMAIN prev : /\ prev[i].ScheduleDetailID = sid[1]
                                      /\ prev[i].DayNum = sid[2]
                                      /\ prev[i].IsUnfilled}
             first == CHOOSE i \in matching_indices : \A j \in matching_indices : i <= j
         IN  IF matching_indices # {}
             THEN [prev EXCEPT ![first] = [@ EXCEPT !.EmployeeNumber = mapping.val[sid]]]
             ELSE prev

(* Apply assignments: the first still-unfilled row of each assigned shift   *)
RECURSIVE apply_assignments(_, _, _)
apply_assignments(result, mapping, n) ==
    IF n = 0 THEN result
    ELSE LET prev == apply_assignments(result, mapping, n - 1)
             sid  == mapping.keys[n]
             matching_indices ==
                 {i \in DOMAIN prev : /\ prev[i].ScheduleDetailID = sid[1]
                                      /\ prev[i].DayNum = sid[2]
                                      /\ prev[i].IsUnfilled}
             first == CHOOSE i \in matching_indices : \A j \in matching_indices : i <= j
         IN  IF matching_indices # {}
             THEN [prev EXCEPT ![first] =
                      [@ EXCEPT !.EmployeeNumber = mapping.val[sid], !.IsUnfilled = FALSE]]
             ELSE prev

(* the outcomes of one call: the result, and the solve_assignment outcome   *)
(* it rests on, if the solver was called                                    *)
fill_unfilled_shifts(snapshot, profiles) ==
    LET result == snapshot
        filled_shifts == SelectSeq(result, LAMBDA r : r.EmployeeNumber # NaN)
        unfilled_shifts == SelectSeq(result, LAMBDA r : r.EmployeeNumber = NaN)
        unfilled_shifts_deduped == drop_duplicates(unfilled_shifts)
    IN  IF Len(unfilled_shifts) = 0
        THEN {[raised |-> FALSE, result |-> result, called |-> FALSE, solve |-> <<>>]}
        ELSE {[raised |-> o.raised,
               result |-> IF o.raised \/ Len(o.assignments.keys) = 0 THEN result
                          ELSE apply_assignments(result, o.assignments,
                                                 Len(o.assignments.keys)),
               called |-> TRUE,
               solve |-> o] :
              o \in solve_assignment(unfilled_shifts_deduped, profiles, filled_shifts)}

----------------------------------------------------------------------------
(* Inputs: the historical data and the latest snapshot after preprocessing  *)

Row(sid, day, start, dur, job, emp) ==
    [ScheduleDetailID |-> sid, DayNum |-> day, StartHour |-> start,
     ShiftDurationHours |-> dur, JobNumber |-> job, EmployeeNumber |-> emp,
     IsUnfilled |-> (emp = NaN)]

(* filled shifts of one employee: days 1..days, each of dur hours, and with *)
(* dbl a second shift on day 1                                              *)
FilledPatterns ==
    { [days |-> 0, dur |-> 0,  dbl |-> FALSE],
      [days |-> 1, dur |-> 8,  dbl |-> TRUE],
      [days |-> 2, dur |-> 19, dbl |-> FALSE],
      [days |-> 3, dur |-> 19, dbl |-> FALSE],
      [days |-> 4, dur |-> 8,  dbl |-> FALSE],
      [days |-> 4, dur |-> 10, dbl |-> FALSE],
      [days |-> 5, dur |-> 4,  dbl |-> FALSE],
      [days |-> 6, dur |-> 4,  dbl |-> FALSE] }

PatternRank(p) == 100 * p.days + p.dur

PatternRows(emp, p) ==
    [i \in 1..(p.days + (IF p.dbl THEN 1 ELSE 0)) |->
        Row(100 * emp + i, IF i <= p.days THEN i ELSE 1, 8, p.dur, 10, emp)]

UnfilledCells == [DayNum : {1, 6, 7}, ShiftDurationHours : {0, 8}]

CellRank(c) == 100 * c.DayNum + c.ShiftDurationHours

UnfilledInputs ==
    UNION { {cs \in [1..n -> UnfilledCells] :
                \A i \in 1..(n - 1) : CellRank(cs[i]) <= CellRank(cs[i + 1])}
            : n \in 0..MaxUnfilled }

UnfilledRows(cs) ==
    [i \in DOMAIN cs |->
        Row(900 + i, cs[i].DayNum, 8, cs[i].ShiftDurationHours, 10, NaN)]

HistKinds ==
    { [DayNum |-> 6, StartHour |-> 8,  ShiftDurationHours |-> 8,  JobNumber |-> 10],
      [DayNum |-> 1, StartHour |-> 22, ShiftDurationHours |-> 12, JobNumber |-> 20] }

HistCells == [EmployeeNumber : Employees, kind : HistKinds]

HistRank(c) == 100 * c.EmployeeNumber + c.kind.DayNum

(* the rows dated before the target date: one or more (preprocess_schedule *)
(* raises on none), shifts that were worked or one shift nobody took        *)
HistInputs ==
    UNION { {hs \in [1..n -> HistCells] :
                \A i \in 1..(n - 1) : HistRank(hs[i]) <= HistRank(hs[i + 1])}
            : n \in 1..MaxHist }
    \cup { <<[EmployeeNumber |-> NaN, kind |-> k]>> : k \in HistKinds }

HistRows(hs) ==
    [i \in DOMAIN hs |->
        Row(i, hs[i].kind.DayNum, hs[i].kind.StartHour, hs[i].kind.ShiftDurationHours,
            hs[i].kind.JobNumber, hs[i].EmployeeNumber)]

----------------------------------------------------------------------------
(* main(): load, profile, solve, fill, validate.  The histories range over  *)
(* both employees alike, so of two snapshots that differ by exchanging the  *)
(* employees' filled shifts only one is taken.                              *)
(* The snapshot of the target date has rows: split_historical_and_latest    *)
(* raises ValueError on a file without any.                                 *)

NoReport == [valid |-> TRUE, violations |-> EmptyViolations, total_violations |-> -1]

NotPreprocessed == [by_date |-> FALSE, df |-> <<>>]

NoScore == [employee |-> NaN, shift |-> <<>>, score |-> 0, score_float |-> FZero]

(* the threads that serve /assign requests *)
Requests == 1..MaxRequests

(* a module global of api/endpoints.py: None until it is assigned *)
NotCached == [set |-> FALSE, value |-> <<>>]

Cached(v) == [set |-> TRUE, value |-> v]

NoParam == [kind |-> "missing", int |-> 0]

NoResponse == [code |-> 0, status |-> "", employee_number |-> NaN]

NoCall == [called |-> FALSE, unfilled_shift |-> <<>>, filled_shifts |-> <<>>,
           assignments |-> EmptyDict]

IdleRequest ==
    [pc |-> "idle", after |-> {}, schedule_detail_id |-> NoParam, day_num |-> NoParam,
     employee_profiles |-> FALSE, latest_snapshot |-> FALSE,
     call |-> NoCall, response |-> NoResponse]

ApiIdle ==
    /\ data_cache = NotCached
    /\ profiles_cache = NotCached
    /\ snapshot_cache = NotCached
    /\ req = [r \in Requests |-> IdleRequest]

NotCalled == [done |-> FALSE, raised |-> FALSE, result |-> <<>>]

NoChecks ==
    [unfilled_shifts |-> <<>>, shift_set |-> <<>>, missing |-> <<"", "">>,
     pre |-> NotCalled, post |-> NotCalled, solve |-> NotCalled]

ChecksIdle == checks = NoChecks

FeatIdle ==
    /\ feature_input = <<>>
    /\ feature_runs = <<>>
    /\ score_log = NoScore

(* the variables of the other entry points, at rest *)
AuxIdle ==
    /\ raw_df = <<>>
    /\ preprocessed = NotPreprocessed
    /\ FeatIdle
    /\ ApiIdle
    /\ ChecksIdle

Init ==
    \E hs \in HistInputs, p1 \in FilledPatterns, p2 \in FilledPatterns,
       cs \in UnfilledInputs :
        /\ PatternRank(p1) <= PatternRank(p2)
        /\ historical_data = HistRows(hs)
        /\ employee_profiles = compute_compatibility(HistRows(hs))
        /\ latest_snapshot = PatternRows(1, p1) \o PatternRows(2, p2) \o UnfilledRows(cs)
        /\ latest_snapshot # <<>>
        /\ pc = "solve"
        /\ assignments = EmptyDict
        /\ solver_log = <<>>
        /\ filled_snapshot = <<>>
        /\ constraint_validation = NoReport
        /\ AuxIdle

LogEntry(caller, o) ==
    [caller |-> caller, assignments |-> o.assignments, x |-> o.x,
     day_vars |-> o.day_vars, varValue |-> o.varValue, log |-> o.log]

(* main() step 7 *)
SolveAssignment ==
    /\ pc = "solve"
    /\ LET filled_shifts == SelectSeq(latest_snapshot, LAMBDA r : r.EmployeeNumber # NaN)
           unfilled_shifts == SelectSeq(latest_snapshot, LAMBDA r : r.IsUnfilled)
       IN  \E o \in solve_assignment(unfilled_shifts, employee_profiles, filled_shifts) :
               /\ assignments' = o.assignments
               /\ solver_log' = IF o.raised THEN solver_log
                                ELSE Append(solver_log, LogEntry("main", o))
               /\ pc' = IF o.raised THEN "raised" ELSE "fill"
    /\ UNCHANGED <<historical_data, employee_profiles, latest_snapshot,
                   filled_snapshot, constraint_validation>>
    /\ UNCHANGED aux_vars

(* main() step 8 *)
FillUnfilledShifts ==
    /\ pc = "fill"
    /\ \E f \in fill_unfilled_shifts(latest_snapshot, employee_profiles) :
           /\ filled_snapshot' = f.result
           /\ solver_log' = IF f.called /\ ~f.raised
                            THEN Append(solver_log, LogEntry("fill", f.solve))
                            ELSE solver_log
           /\ pc' = IF f.raised THEN "raised" ELSE "validate"
    /\ UNCHANGED <<historical_data, employee_profiles, latest_snapshot, assignments,
                   constraint_validation>>
    /\ UNCHANGED aux_vars

(* main(): constraint checking of the filled snapshot *)
ValidateConstraints ==
    /\ pc = "validate"
    /\ constraint_validation' = validate_constraints(filled_snapshot)
    /\ pc' = "done"
    /\ UNCHANGED <<historical_data, employee_profiles, latest_snapshot, assignments,
                   solver_log, filled_snapshot>>
    /\ UNCHANGED aux_vars

Next == SolveAssignment \/ FillUnfilledShifts \/ ValidateConstraints

Spec == Init /\ [][Next]_vars

----------------------------------------------------------------------------
(* solve_assignment against a solver of which nothing is assumed.  The      *)
(* snapshots are few, as every status and every value of every variable is  *)
(* an outcome of each of them.                                              *)

SolverPatterns ==
    { [days |-> 0, dur |-> 0, dbl |-> FALSE],
      [days |-> 4, dur |-> 8, dbl |-> FALSE],
      [days |-> 5, dur |-> 4, dbl |-> FALSE] }

SolverUnfilled ==
    {cs \in UnfilledInputs : \A i \in DOMAIN cs : cs[i].ShiftDurationHours = 8}

SolverHist ==
    {hs \in HistInputs : /\ Len(hs) = MaxHist
                         /\ \A i \in DOMAIN hs : hs[i].kind.DayNum = 6}

InitSolver ==
    \E hs \in SolverHist, p1 \in SolverPatterns, p2 \in SolverPatterns,
       cs \in SolverUnfilled :
        /\ historical_data = HistRows(hs)
        /\ employee_profiles = compute_compatibility(HistRows(hs))
        /\ latest_snapshot = PatternRows(1, p1) \o PatternRows(2, p2) \o UnfilledRows(cs)
        /\ latest_snapshot # <<>>
        /\ pc = "solve"
        /\ assignments = EmptyDict
        /\ solver_log = <<>>
        /\ filled_snapshot = <<>>
        /\ constraint_validation = NoReport
        /\ AuxIdle

(* main() step 7, whatever prob.solve() answers *)
SolveAssignmentAnySolver ==
    /\ pc = "solve"
    /\ LET filled_shifts == SelectSeq(latest_snapshot, LAMBDA r : r.EmployeeNumber # NaN)
           unfilled_shifts == SelectSeq(latest_snapshot, LAMBDA r : r.IsUnfilled)
       IN  \E o \in solve_assignment_with(TRUE, unfilled_shifts, employee_profiles,
                                          filled_shifts) :
               /\ assignments' = o.assignments
               /\ solver_log' = IF o.raised THEN solver_log
                                ELSE Append(solver_log, LogEntry("main", o))
               /\ pc' = IF o.raised THEN "raised" ELSE "fill"
    /\ UNCHANGED <<historical_data, employee_profiles, latest_snapshot,
                   filled_snapshot, constraint_validation>>
    /\ UNCHANGED aux_vars

NextSolver == SolveAssignmentAnySolver

SpecSolver == InitSolver /\ [][NextSolver]_vars

----------------------------------------------------------------------------
(* preprocess_schedule on rows as loaded: up to MaxRaw rows of one schedule *)
(* detail, over two snapshot dates, two days and three employee values,     *)
(* with or without the date column                                          *)

RawCells ==
    [date : {"10/7/2024", "10/8/2024"}, ScheduleDetailID : {7}, DayNum : {1, 2},
     EmployeeNumber : {NaN} \cup Employees, StartHour : {22}, EndHour : {6},
     JobNumber : {10}]

without_date(r) == [c \in DOMAIN r \ {"date"} |-> r[c]]

RawInputs ==
    UNION { [1..n -> RawCells] : n \in 0..MaxRaw }
    \cup UNION { {[i \in 1..n |-> without_date(df[i])] : df \in [1..n -> RawCells]}
                 : n \in 1..MaxRaw }

InitPreprocess ==
    /\ raw_df \in RawInputs
    /\ preprocessed = NotPreprocessed
    /\ historical_data = <<>>
    /\ employee_profiles = <<>>
    /\ latest_snapshot = <<>>
    /\ pc = "preprocess"
    /\ assignments = EmptyDict
    /\ solver_log = <<>>
    /\ filled_snapshot = <<>>
    /\ constraint_validation = NoReport
    /\ FeatIdle
    /\ ApiIdle
    /\ ChecksIdle

(* main() step 3, _load_and_cache_data: one preprocess_schedule call *)
PreprocessSchedule ==
    /\ pc = "preprocess"
    /\ \E deduplicate_by_date \in BOOLEAN :
           LET df == preprocess_schedule(raw_df, deduplicate_by_date)
           IN  IF df = ValueError
               THEN /\ preprocessed' = preprocessed
                    /\ pc' = "raised"
               ELSE /\ preprocessed' = [by_date |-> deduplicate_by_date, df |-> df]
                    /\ pc' = "preprocessed"
    /\ UNCHANGED <<raw_df, historical_data, employee_profiles, latest_snapshot,
                   assignments, solver_log, filled_snapshot, constraint_validation>>
    /\ UNCHANGED <<feat_vars, api_vars, check_vars>>

NextPreprocess == PreprocessSchedule

SpecPreprocess == InitPreprocess /\ [][NextPreprocess]_vars

----------------------------------------------------------------------------
(* The feature extractor, the profile builder and the scorer on a history   *)
(* of up to MaxProfileHist loaded rows: three kinds of shift that differ in *)
(* every dimension, each filled by one of two employees or unfilled.        *)

ProfileKinds ==
    { [DayNum |-> 6, StartHour |-> 8,  EndHour |-> 16, JobNumber |-> 10],
      [DayNum |-> 1, StartHour |-> 22, EndHour |-> 10, JobNumber |-> 20],
      [DayNum |-> 2, StartHour |-> 13, EndHour |-> 17, JobNumber |-> 10] }

ProfileCells == [EmployeeNumber : {NaN} \cup Employees, kind : ProfileKinds]

ProfileRaw(cs) ==
    [i \in DOMAIN cs |->
        [date |-> "10/1/2024", ScheduleDetailID |-> i, DayNum |-> cs[i].kind.DayNum,
         EmployeeNumber |-> cs[i].EmployeeNumber, StartHour |-> cs[i].kind.StartHour,
         EndHour |-> cs[i].kind.EndHour, JobNumber |-> cs[i].kind.JobNumber]]

(* a history has rows: preprocess_schedule raises on one without *)
ProfileInputs == UNION { [1..n -> ProfileCells] : n \in 1..MaxProfileHist }

(* the shifts scored: the three kinds, a shift no history has in any        *)
(* dimension, and one that shares its day, duration and job with some kinds *)
(* but its time with none                                                   *)
ScoreShiftRows ==
    ProfileKinds \cup
    { [DayNum |-> 7, StartHour |-> 3, EndHour |-> 23, JobNumber |-> 99],
      [DayNum |-> 2, StartHour |-> 19, EndHour |-> 23, JobNumber |-> 20] }

InitProfile ==
    \E cs \in ProfileInputs :
        /\ raw_df = ProfileRaw(cs)
        /\ historical_data = preprocess_schedule(ProfileRaw(cs), TRUE)
        /\ preprocessed = NotPreprocessed
        /\ employee_profiles = <<>>
        /\ latest_snapshot = <<>>
        /\ pc = "features"
        /\ assignments = EmptyDict
        /\ solver_log = <<>>
        /\ filled_snapshot = <<>>
        /\ constraint_validation = NoReport
        /\ FeatIdle
        /\ ApiIdle
        /\ ChecksIdle

(* the frames extract_shift_features is given: the preprocessed history,    *)
(* the rows as loaded (no parsed time, no duration), and the rows as loaded *)
(* with a duration column of their own                                      *)
FeatureFrames ==
    { historical_data, raw_df,
      [i \in DOMAIN raw_df |-> [ShiftDurationHours |-> 5] @@ raw_df[i]] }

(* extract_shift_features on a frame with rows, row by row.  (The columns   *)
(* of a frame are the fields of its rows; the program hands the function no *)
(* frame that has neither rows nor a ShiftDurationHours column, on which    *)
(* the df.apply of the duration would raise as in handle_midnight_shifts.)  *)
extract_shift_features_df(df) == [i \in DOMAIN df |-> extract_shift_features(df[i])]

(* extract_shift_features, first on a frame, then on its own result *)
ExtractShiftFeatures ==
    /\ pc = "features"
    /\ IF feature_runs = <<>>
       THEN \E df \in FeatureFrames :
               /\ feature_input' = df
               /\ feature_runs' = <<extract_shift_features_df(df)>>
               /\ pc' = "features"
       ELSE /\ feature_input' = feature_input
            /\ feature_runs' = Append(feature_runs,
                                  extract_shift_features_df(feature_runs[Len(feature_runs)]))
            /\ pc' = "profile"
    /\ UNCHANGED <<historical_data, employee_profiles, latest_snapshot, assignments,
                   solver_log, filled_snapshot, constraint_validation, score_log>>
    /\ UNCHANGED <<prep_vars, api_vars, check_vars>>

(* main() step 4 *)
ComputeCompatibility ==
    /\ pc = "profile"
    /\ employee_profiles' = compute_compatibility(historical_data)
    /\ pc' = "score"
    /\ UNCHANGED <<historical_data, latest_snapshot, assignments, solver_log,
                   filled_snapshot, constraint_validation>>
    /\ UNCHANGED aux_vars

(* one get_compatibility_score call, as compute_compatibility_matrix makes  *)
(* it for a profile and the features of a shift                             *)
GetCompatibilityScore ==
    /\ pc = "score"
    /\ \E j \in DOMAIN employee_profiles, row \in ScoreShiftRows :
           LET p == employee_profiles[j]
               f == extract_shift_features(row)
           IN  score_log' =
                   [employee |-> p.EmployeeNumber, shift |-> f,
                    score |-> get_compatibility_score(p, f.DayNum, f.ShiftTimeCategory,
                                  f.ShiftDurationCategory, f.JobNumber, f.ShiftType),
                    score_float |-> get_compatibility_score_float(p, f.DayNum,
                                  f.ShiftTimeCategory, f.ShiftDurationCategory,
                                  f.JobNumber, f.ShiftType)]
    /\ pc' = "scored"
    /\ UNCHANGED <<historical_data, employee_profiles, latest_snapshot, assignments,
                   solver_log, filled_snapshot, constraint_validation,
                   feature_input, feature_runs>>
    /\ UNCHANGED <<prep_vars, api_vars, check_vars>>

NextProfile == ExtractShiftFeatures \/ ComputeCompatibility \/ GetCompatibilityScore

SpecProfile == InitProfile /\ [][NextProfile]_vars

----------------------------------------------------------------------------
(* extract_shift_features on one loaded shift of every start and end hour   *)
(* of the day, before and after preprocessing                               *)

Hours == 0..23

InitFeatures ==
    \E start \in Hours, end \in Hours :
        LET df == <<[date |-> "10/1/2024", ScheduleDetailID |-> 1, DayNum |-> 1,
                     EmployeeNumber |-> 1, StartHour |-> start, EndHour |-> end,
                     JobNumber |-> 10]>>
        IN  /\ raw_df = df
            /\ historical_data = preprocess_schedule(df, TRUE)
            /\ preprocessed = NotPreprocessed
            /\ employee_profiles = <<>>
            /\ latest_snapshot = <<>>
            /\ pc = "features"
            /\ assignments = EmptyDict
            /\ solver_log = <<>>
            /\ filled_snapshot = <<>>
            /\ constraint_validation = NoReport
            /\ FeatIdle
            /\ ApiIdle
            /\ ChecksIdle

NextFeatures == ExtractShiftFeatures

SpecFeatures == InitFeatures /\ [][NextFeatures]_vars

----------------------------------------------------------------------------
(* The two validators and solve_assignment on one shift set: the filled     *)
(* shifts of two employees, with or without unfilled rows among them, and a *)
(* frame of unfilled shifts; one of the two frames may lack one column.     *)

CheckedFields == {"ShiftDurationHours", "DayNum", "EmployeeNumber"}

MissingChoices == {<<"", "">>} \cup ({"filled", "unfilled"} \X CheckedFields)

without_field(rows, field) ==
    [i \in DOMAIN rows |-> [f \in DOMAIN rows[i] \ {field} |-> rows[i][f]]]

ChecksHist ==
    {hs \in SolverHist : \A e \in Employees : \E i \in DOMAIN hs : hs[i].EmployeeNumber = e}

InitChecks ==
    \E hs \in ChecksHist, p1 \in FilledPatterns, p2 \in FilledPatterns,
       cs \in SolverUnfilled, mixed \in BOOLEAN, missing \in MissingChoices :
        LET filled == PatternRows(1, p1) \o PatternRows(2, p2)
            shift_set == IF mixed THEN UnfilledRows(cs) \o filled ELSE filled
        IN  /\ PatternRank(p1) <= PatternRank(p2)
            /\ mixed => cs # <<>>
            /\ filled # <<>> \/ cs # <<>>
            /\ historical_data = HistRows(hs)
            /\ employee_profiles = compute_compatibility(HistRows(hs))
            /\ latest_snapshot = <<>>
            /\ pc = "checks"
            /\ assignments = EmptyDict
            /\ solver_log = <<>>
            /\ filled_snapshot = <<>>
            /\ constraint_validation = NoReport
            /\ raw_df = <<>>
            /\ preprocessed = NotPreprocessed
            /\ FeatIdle
            /\ ApiIdle
            /\ checks =
                 [NoChecks EXCEPT
                    !.missing = missing,
                    !.unfilled_shifts =
                        IF missing[1] = "unfilled"
                        THEN without_field(UnfilledRows(cs), missing[2])
                        ELSE UnfilledRows(cs),
                    !.shift_set =
                        IF missing[1] = "filled"
                        THEN without_field(shift_set, missing[2])
                        ELSE shift_set]

Raised == [done |-> TRUE, raised |-> TRUE, result |-> <<>>]

(* the columns the filled or the unfilled frame of the state lacks *)
Absent(frame) == IF checks.missing[1] = frame THEN {checks.missing[2]} ELSE {}

Returned(result) == [done |-> TRUE, raised |-> FALSE, result |-> result]

(* main() step 5 *)
ValidateFilledShiftsConstraints ==
    /\ pc = "checks"
    /\ ~checks.pre.done
    /\ checks' =
         [checks EXCEPT
            !.pre = IF validate_filled_shifts_constraints_raises(checks.shift_set)
                    THEN Raised
                    ELSE Returned(validate_filled_shifts_constraints(checks.shift_set))]
    /\ UNCHANGED <<main_vars, prep_vars, feat_vars, api_vars>>

(* main(): constraint checking, here of the same shift set *)
ValidateConstraintsOfSet ==
    /\ pc = "checks"
    /\ ~checks.post.done
    /\ checks' =
         [checks EXCEPT
            !.post = IF validate_constraints_raises(checks.shift_set, Absent("filled"))
                     THEN Raised
                     ELSE Returned(validate_constraints(checks.shift_set))]
    /\ UNCHANGED <<main_vars, prep_vars, feat_vars, api_vars>>

(* main() step 7, with the shift set as the filled shifts; what the call    *)
(* accumulated from them is kept beside its mapping                         *)
SolveAssignmentOfSet ==
    /\ pc = "checks"
    /\ ~checks.solve.done
    /\ IF solve_assignment_raises(checks.unfilled_shifts, Absent("unfilled"),
                               checks.shift_set)
       THEN checks' = [checks EXCEPT !.solve = Raised]
       ELSE \E o \in solve_assignment(checks.unfilled_shifts, employee_profiles,
                                      checks.shift_set) :
               checks' =
                 [checks EXCEPT
                    !.solve =
                        IF o.raised THEN Raised
                        ELSE Returned([assignments |-> o.assignments,
                                       acc |-> accumulate(checks.shift_set)])]
    /\ UNCHANGED <<main_vars, prep_vars, feat_vars, api_vars>>

NextChecks ==
    \/ ValidateFilledShiftsConstraints
    \/ ValidateConstraintsOfSet
    \/ SolveAssignmentOfSet

SpecChecks == InitChecks /\ [][NextChecks]_vars

----------------------------------------------------------------------------
(* The /assign endpoint: the requests are served by threads of one process  *)
(* that share the three module globals.  A thread's employee_profiles and   *)
(* latest_snapshot are references: the model keeps whether each is None,    *)
(* and reads the frame they refer to where the code reads it.               *)

ApiPatterns ==
    { [days |-> 0, dur |-> 0, dbl |-> FALSE],
      [days |-> 4, dur |-> 8, dbl |-> FALSE] }

ApiUnfilled ==
    {cs \in UnfilledInputs : \A i \in DOMAIN cs : /\ cs[i].ShiftDurationHours = 8
                                                  /\ cs[i].DayNum # 1}

ApiHist == {hs \in HistInputs : \A i \in DOMAIN hs : hs[i].kind.DayNum = 6}

(* the data file, as _load_and_cache_data processes it *)
InitApi ==
    \E hs \in ApiHist, p1 \in ApiPatterns, p2 \in ApiPatterns, cs \in ApiUnfilled :
        /\ historical_data = HistRows(hs)
        /\ employee_profiles = compute_compatibility(HistRows(hs))
        /\ latest_snapshot = PatternRows(1, p1) \o PatternRows(2, p2) \o UnfilledRows(cs)
        /\ latest_snapshot # <<>>
        /\ pc = "serve"
        /\ assignments = EmptyDict
        /\ solver_log = <<>>
        /\ filled_snapshot = <<>>
        /\ constraint_validation = NoReport
        /\ raw_df = <<>>
        /\ preprocessed = NotPreprocessed
        /\ FeatIdle
        /\ ApiIdle
        /\ ChecksIdle

(* a JSON number *)
IntParam(n) == [kind |-> "int", int |-> n]

(* the decimal digits of n as a string: a query value of a GET request, or  *)
(* a JSON string                                                            *)
StrParam(n) == [kind |-> "str", int |-> n]

(* a JSON list or object of n members *)
ListParam(n) == [kind |-> "list", int |-> n]

(* request parameters, each under its lower-case key: the cells of the      *)
(* snapshot that are unfilled, its first filled cell, a cell that is not    *)
(* there, a day out of range, cell 0 as a number and as a string, and       *)
(* values that are absent, not a number, or a list with or without members  *)
ApiParams ==
    LET cells == {shift_id_of(latest_snapshot[i]) :
                    i \in {i \in DOMAIN latest_snapshot :
                             latest_snapshot[i].IsUnfilled \/ i = 1}}
                 \cup {<<999, 1>>, <<901, 8>>}
    IN  {[schedule_detail_id |-> IntParam(c[1]), day_num |-> IntParam(c[2])] :
            c \in cells}
        \cup {[schedule_detail_id |-> NoParam, day_num |-> IntParam(1)],
              [schedule_detail_id |-> IntParam(901),
               day_num |-> [kind |-> "text", int |-> 0]],
              [schedule_detail_id |-> IntParam(0), day_num |-> IntParam(1)],
              [schedule_detail_id |-> StrParam(0), day_num |-> StrParam(1)],
              [schedule_detail_id |-> ListParam(0), day_num |-> IntParam(6)],
              [schedule_detail_id |-> ListParam(1), day_num |-> IntParam(6)]}

(* data.get(key) or data.get(Key), the second key being absent: a value     *)
(* that is false in Python (the number 0, a list or object without members) *)
(* is read as None                                                          *)
get_or_none(value) ==
    IF value.kind \in {"int", "list"} /\ value.int = 0 THEN NoParam ELSE value

(* the status code of the parameter checks, 0 when they pass *)
validate_params(schedule_detail_id, day_num) ==
    IF get_or_none(schedule_detail_id).kind = "missing"
       \/ get_or_none(day_num).kind = "missing" THEN 400
    ELSE IF schedule_detail_id.kind = "text" THEN 400
    ELSE IF schedule_detail_id.kind = "list" THEN 500
    ELSE IF day_num.kind = "text" THEN 400
    ELSE IF day_num.kind = "list" THEN 500
    ELSE IF day_num.int < 1 \/ day_num.int > 7 THEN 400
    ELSE 0

ErrorResponse(code) == [code |-> code, status |-> "error", employee_number |-> NaN]

Respond(r, response) ==
    req' = [req EXCEPT ![r].pc = "done", ![r].response = response]

Goto(r, to) == req' = [req EXCEPT ![r].pc = to]

(* assign_cell: the parameters and their checks; after holds the requests  *)
(* that were answered before this one came in                               *)
ReceiveRequest(r) ==
    /\ req[r].pc = "idle"
    /\ \E p \in ApiParams :
        LET code == validate_params(p.schedule_detail_id, p.day_num)
        IN  req' = [req EXCEPT
                      ![r].after = {q \in Requests : req[q].pc = "done"},
                      ![r].schedule_detail_id = p.schedule_detail_id,
                      ![r].day_num = p.day_num,
                      ![r].pc = IF code = 0 THEN "load" ELSE "done",
                      ![r].response = IF code = 0 THEN NoResponse
                                      ELSE ErrorResponse(code)]
    /\ UNCHANGED <<data_cache, profiles_cache, snapshot_cache>>
    /\ UNCHANGED <<main_vars, prep_vars, feat_vars, check_vars>>

(* _load_and_cache_data: if _data_cache is None *)
CheckCache(r) ==
    /\ req[r].pc = "load"
    /\ Goto(r, IF data_cache.set THEN "return" ELSE "loading")
    /\ UNCHANGED <<data_cache, profiles_cache, snapshot_cache>>
    /\ UNCHANGED <<main_vars, prep_vars, feat_vars, check_vars>>

(* _load_and_cache_data: load, split, preprocess, profile, set _data_cache *)
SetDataCache(r) ==
    /\ req[r].pc = "loading"
    /\ data_cache' = Cached([historical |-> historical_data, latest |-> latest_snapshot])
    /\ Goto(r, "set_profiles")
    /\ UNCHANGED <<profiles_cache, snapshot_cache>>
    /\ UNCHANGED <<main_vars, prep_vars, feat_vars, check_vars>>

SetProfilesCache(r) ==
    /\ req[r].pc = "set_profiles"
    /\ profiles_cache' = Cached(compute_compatibility(historical_data))
    /\ Goto(r, "set_snapshot")
    /\ UNCHANGED <<data_cache, snapshot_cache>>
    /\ UNCHANGED <<main_vars, prep_vars, feat_vars, check_vars>>

SetSnapshotCache(r) ==
    /\ req[r].pc = "set_snapshot"
    /\ snapshot_cache' = Cached(latest_snapshot)
    /\ Goto(r, "return")
    /\ UNCHANGED <<data_cache, profiles_cache>>
    /\ UNCHANGED <<main_vars, prep_vars, feat_vars, check_vars>>

(* _load_and_cache_data: the return reads the three globals one after the  *)
(* other, and another thread may run in between; _data_cache, read first,  *)
(* is not used by assign_cell                                              *)
ReturnProfilesCache(r) ==
    /\ req[r].pc = "return"
    /\ req' = [req EXCEPT ![r].employee_profiles = profiles_cache.set,
                          ![r].pc = "return_snapshot"]
    /\ UNCHANGED <<data_cache, profiles_cache, snapshot_cache>>
    /\ UNCHANGED <<main_vars, prep_vars, feat_vars, check_vars>>

ReturnSnapshotCache(r) ==
    /\ req[r].pc = "return_snapshot"
    /\ req' = [req EXCEPT ![r].latest_snapshot = snapshot_cache.set,
                          ![r].pc = "find"]
    /\ UNCHANGED <<data_cache, profiles_cache, snapshot_cache>>
    /\ UNCHANGED <<main_vars, prep_vars, feat_vars, check_vars>>

cell_rows_of(snapshot, schedule_detail_id, day_num) ==
    SelectSeq(snapshot, LAMBDA row : /\ row.ScheduleDetailID = schedule_detail_id
                                     /\ row.DayNum = day_num)

(* assign_cell: look the cell up; a latest_snapshot of None raises *)
FindCell(r) ==
    /\ req[r].pc = "find"
    /\ LET cell_rows == cell_rows_of(snapshot_cache.value, req[r].schedule_detail_id.int,
                                     req[r].day_num.int)
       IN  IF ~req[r].latest_snapshot THEN Respond(r, ErrorResponse(500))
           ELSE IF Len(cell_rows) = 0 THEN Respond(r, ErrorResponse(404))
           ELSE IF cell_rows[1].EmployeeNumber # NaN
                THEN Respond(r, [code |-> 200, status |-> "filled",
                                 employee_number |-> cell_rows[1].EmployeeNumber])
           ELSE Goto(r, "solve")
    /\ UNCHANGED <<data_cache, profiles_cache, snapshot_cache>>
    /\ UNCHANGED <<main_vars, prep_vars, feat_vars, check_vars>>

(* what a solve leaves in the cached snapshot: assign_cell and              *)
(* solve_assignment work on copies and store nothing                        *)
cached_after_assign_persisting(cached, mapping) ==
    apply_assignments(cached, mapping, Len(mapping.keys))

cached_after_assign(cached, mapping) ==
    cached

(* assign_cell: solve for the one cell against the filled shifts of the     *)
(* snapshot, and answer                                                     *)
SolveCell(r) ==
    /\ req[r].pc = "solve"
    /\ LET shift_id == <<req[r].schedule_detail_id.int, req[r].day_num.int>>
           cell_rows == cell_rows_of(snapshot_cache.value, shift_id[1], shift_id[2])
           unfilled_shift == SubSeq(cell_rows, 1, 1)
           filled_shifts == SelectSeq(snapshot_cache.value,
                                      LAMBDA row : row.EmployeeNumber # NaN)
       IN  IF ~req[r].employee_profiles
           THEN /\ Respond(r, ErrorResponse(500))
                /\ UNCHANGED snapshot_cache
           ELSE \E o \in solve_assignment(unfilled_shift, profiles_cache.value,
                                          filled_shifts) :
                   /\ req' = [req EXCEPT
                        ![r].pc = "done",
                        ![r].call = IF o.raised THEN NoCall
                                    ELSE [called |-> TRUE,
                                          unfilled_shift |-> unfilled_shift,
                                          filled_shifts |-> filled_shifts,
                                          assignments |-> o.assignments],
                        ![r].response =
                            IF o.raised THEN ErrorResponse(500)
                            ELSE IF Len(o.assignments.keys) = 0
                                    \/ ~DictHas(o.assignments, shift_id)
                            THEN [code |-> 200, status |-> "unfilled",
                                  employee_number |-> NaN]
                            ELSE [code |-> 200, status |-> "assigned",
                                  employee_number |-> o.assignments.val[shift_id]]]
                   /\ snapshot_cache' =
                        [snapshot_cache EXCEPT
                            !.value = IF o.raised THEN @
                                      ELSE cached_after_assign(@, o.assignments)]
    /\ UNCHANGED <<data_cache, profiles_cache>>
    /\ UNCHANGED <<main_vars, prep_vars, feat_vars, check_vars>>

NextApi ==
    \E r \in Requests :
        \/ ReceiveRequest(r)
        \/ CheckCache(r)
        \/ SetDataCache(r)
        \/ SetProfilesCache(r)
        \/ SetSnapshotCache(r)
        \/ ReturnProfilesCache(r)
        \/ ReturnSnapshotCache(r)
        \/ FindCell(r)
        \/ SolveCell(r)

SpecApi == InitApi /\ [][NextApi]_vars

----------------------------------------------------------------------------
(* Reference quantities of the properties, computed from the rows directly  *)
(* (sets of row positions), not through the accumulator                     *)

RECURSIVE SumOver(_, _)
SumOver(S, f) ==
    IF S = {} THEN 0
    ELSE LET a == CHOOSE a \in S : TRUE IN f[a] + SumOver(S \ {a}, f)

RowsOf(rows, e) == {i \in DOMAIN rows : rows[i].EmployeeNumber = e}

HoursIn(rows, e) ==
    SumOver(RowsOf(rows, e), [i \in RowsOf(rows, e) |-> rows[i].ShiftDurationHours])

DaysIn(rows, e) == {rows[i].DayNum : i \in RowsOf(rows, e)}

CountIn(rows, e, d) == Cardinality({i \in RowsOf(rows, e) : rows[i].DayNum = d})

EmployeesIn(rows) == {rows[i].EmployeeNumber : i \in DOMAIN rows} \ {NaN}

UnfilledIdx == {i \in DOMAIN latest_snapshot : latest_snapshot[i].EmployeeNumber = NaN}

(* the unfilled rows a mapping gives to employee e *)
GivenTo(m, e) ==
    {i \in UnfilledIdx :
        /\ DictHas(m, shift_id_of(latest_snapshot[i]))
        /\ m.val[shift_id_of(latest_snapshot[i])] = e}

MappedEmployees(m) == {m.val[k] : k \in DOMAIN m.val}

NewHours(m, e) ==
    SumOver(GivenTo(m, e),
            [i \in UnfilledIdx |-> latest_snapshot[i].ShiftDurationHours])

NewDays(m, e) == {latest_snapshot[i].DayNum : i \in GivenTo(m, e)}

NewCount(m, e, d) == Cardinality({i \in GivenTo(m, e) : latest_snapshot[i].DayNum = d})

(* the calls of solve_assignment that have returned so far *)
Calls == Range(solver_log)

ProfiledEmployees == {employee_profiles[i].EmployeeNumber : i \in DOMAIN employee_profiles}

----------------------------------------------------------------------------
(* C1: in every mapping returned by solve_assignment, for every employee    *)
(* in it, the hours already held in the filled shifts plus the hours of the *)
(* unfilled shifts mapped to that employee are at most 40.                  *)
WeeklyHoursCap ==
    \A c \in Calls : \A e \in MappedEmployees(c.assignments) :
        HoursIn(latest_snapshot, e) + NewHours(c.assignments, e) <= HoursLimit

(* an employee with committed hours is filled up to exactly 40 *)
WeeklyHoursCapWitness ==
    \E c \in Calls : \E e \in MappedEmployees(c.assignments) :
        /\ HoursIn(latest_snapshot, e) > 0
        /\ NewHours(c.assignments, e) > 0
        /\ HoursIn(latest_snapshot, e) + NewHours(c.assignments, e) = HoursLimit

(* C2: in every returned mapping, the days an employee of the mapping works *)
(* in the filled shifts united with the days of the shifts mapped to that   *)
(* employee are at most 5; and each day indicator of the solved program is  *)
(* 1 exactly when its employee is given at least one shift on its day.      *)
WeeklyDaysCap ==
    \A c \in Calls :
        /\ \A e \in MappedEmployees(c.assignments) :
               Cardinality(DaysIn(latest_snapshot, e) \cup NewDays(c.assignments, e))
                   <= DaysLimit
        /\ \A k \in DOMAIN c.day_vars :
               (c.day_vars[k] = 1) <=> (NewCount(c.assignments, k[1], k[2]) >= 1)

(* an employee with four committed days gets a fifth while a second shift   *)
(* on another new day is open                                               *)
WeeklyDaysCapWitness ==
    \E c \in Calls : \E e \in MappedEmployees(c.assignments) :
        /\ Cardinality(DaysIn(latest_snapshot, e)) = 4
        /\ Cardinality(NewDays(c.assignments, e)) = 1
        /\ \E k \in DOMAIN c.day_vars : k[1] = e /\ c.day_vars[k] = 1
        /\ \E k \in DOMAIN c.day_vars :
               k[1] = e /\ c.day_vars[k] = 0 /\ k[2] \notin DaysIn(latest_snapshot, e)

(* C3: in every returned mapping, for every employee in it and every day,   *)
(* the filled shifts of the employee on that day plus the unfilled shifts   *)
(* of that day mapped to the employee are at most 1.                        *)
DailyShiftCap ==
    \A c \in Calls : \A e \in MappedEmployees(c.assignments) : \A d \in Days :
        CountIn(latest_snapshot, e, d) + NewCount(c.assignments, e, d) <= DailyLimit

(* two unfilled shifts fall on one day and an employee takes one of them *)
DailyShiftCapWitness ==
    \E c \in Calls : \E e \in MappedEmployees(c.assignments) :
        \E i \in UnfilledIdx, j \in UnfilledIdx :
            /\ i # j
            /\ latest_snapshot[i].DayNum = latest_snapshot[j].DayNum
            /\ i \in GivenTo(c.assignments, e)
            /\ j \notin GivenTo(c.assignments, e)
            /\ NewCount(c.assignments, e, latest_snapshot[i].DayNum) = 1

(* C4: in every returned mapping each shift key maps to exactly one         *)
(* employee: for each shift at most one decision variable over the          *)
(* assignable employees is 1, and the key maps to that employee.            *)
OneAssigneePerShift ==
    \A c \in Calls :
        \A s \in {k[2] : k \in DOMAIN c.x} :
            LET takers == {k[1] : k \in {q \in DOMAIN c.x : q[2] = s /\ c.x[q] = 1}}
            IN  /\ Cardinality(takers) <= 1
                /\ DictHas(c.assignments, s) <=> takers # {}
                /\ DictHas(c.assignments, s) => takers = {c.assignments.val[s]}

(* a shift that two assignable employees both score positively is given to  *)
(* one of them                                                              *)
OneAssigneePerShiftWitness ==
    \E c \in Calls : \E s \in DOMAIN c.assignments.val :
        /\ Cardinality({k[1] : k \in {q \in DOMAIN c.x : q[2] = s}}) = 2
        /\ \A i \in DOMAIN employee_profiles : \A j \in UnfilledIdx :
               shift_id_of(latest_snapshot[j]) = s =>
                   LET f == extract_shift_features(latest_snapshot[j])
                   IN  get_compatibility_score(employee_profiles[i], f.DayNum,
                           f.ShiftTimeCategory, f.ShiftDurationCategory,
                           f.JobNumber, f.ShiftType) > 0

----------------------------------------------------------------------------
(* Reference: the assignable employees and the partial mappings of the      *)
(* unfilled rows to them that respect the four constraints                  *)

PreExcluded(e) ==
    \/ HoursIn(latest_snapshot, e) >= HoursLimit
    \/ Cardinality(DaysIn(latest_snapshot, e)) >= DaysLimit
    \/ \E d \in Days : CountIn(latest_snapshot, e, d) > DailyLimit

Assignable == {e \in ProfiledEmployees : ~PreExcluded(e)}

ProfileOf(e) ==
    employee_profiles[CHOOSE i \in DOMAIN employee_profiles :
                          employee_profiles[i].EmployeeNumber = e]

ScoreOf(e, i) ==
    LET f == extract_shift_features(latest_snapshot[i])
    IN  get_compatibility_score(ProfileOf(e), f.DayNum, f.ShiftTimeCategory,
                                f.ShiftDurationCategory, f.JobNumber, f.ShiftType)

PartialMappings == [UnfilledIdx -> Assignable \cup {NaN}]

RespectsCaps(pm) ==
    \A e \in Assignable :
        LET given == {i \in UnfilledIdx : pm[i] = e}
        IN  /\ HoursIn(latest_snapshot, e)
                 + SumOver(given, [i \in given |->
                                      latest_snapshot[i].ShiftDurationHours])
                     <= HoursLimit
            /\ Cardinality(DaysIn(latest_snapshot, e)
                             \cup {latest_snapshot[i].DayNum : i \in given}) <= DaysLimit
            /\ \A d \in Days :
                   CountIn(latest_snapshot, e, d)
                     + Cardinality({i \in given : latest_snapshot[i].DayNum = d})
                         <= DailyLimit

TotalOf(pm, scores) ==
    SumOver({i \in UnfilledIdx : pm[i] # NaN},
            [i \in UnfilledIdx |-> IF pm[i] # NaN THEN scores[pm[i], i] ELSE 0])

ScoreTable == [e \in Assignable, i \in UnfilledIdx |-> ScoreOf(e, i)]

(* a returned mapping seen as a partial mapping of the unfilled rows *)
AsPartialMapping(m) ==
    [i \in UnfilledIdx |->
        IF DictHas(m, shift_id_of(latest_snapshot[i]))
        THEN m.val[shift_id_of(latest_snapshot[i])] ELSE NaN]

(* the largest total among the admissible partial mappings *)
BestTotal ==
    LET scores == ScoreTable
        totals == {TotalOf(pm, scores) : pm \in {q \in PartialMappings : RespectsCaps(q)}}
    IN  CHOOSE t \in totals : \A u \in totals : u <= t

(* C5: when the solver reports optimal, the returned mapping has the        *)
(* largest total compatibility score among the partial mappings of the      *)
(* unfilled shifts to assignable employees that respect the one-assignee,   *)
(* 40-hour, 5-day and 1-shift-per-day constraints.                          *)
MaximalCompatibility ==
    \/ \A c \in Calls : c.log.status # StatusOptimal
    \/ LET best == BestTotal
           scores == ScoreTable
       IN  \A c \in Calls :
               c.log.status = StatusOptimal =>
                   /\ AsPartialMapping(c.assignments) \in PartialMappings
                   /\ RespectsCaps(AsPartialMapping(c.assignments))
                   /\ TotalOf(AsPartialMapping(c.assignments), scores) = best

(* the solver had a choice: some other admissible mapping scores positive   *)
(* but strictly less than the returned one                                  *)
MaximalCompatibilityWitness ==
    \E c \in Calls :
        /\ c.log.status = StatusOptimal
        /\ \E pm \in PartialMappings :
               /\ RespectsCaps(pm)
               /\ 0 < TotalOf(pm, ScoreTable)
               /\ TotalOf(pm, ScoreTable) < TotalOf(AsPartialMapping(c.assignments), ScoreTable)

(* C6: an employee whose filled shifts already total 40 hours or more, or   *)
(* cover 5 or more distinct days, or put two shifts on one day, appears in  *)
(* no returned mapping, whatever the scores and the shift durations.        *)
PreExclusion ==
    \A c \in Calls :
        \A e \in ProfiledEmployees \cup EmployeesIn(latest_snapshot) :
            PreExcluded(e) => e \notin MappedEmployees(c.assignments)

(* an employee at exactly 5 days and under 40 hours is the best match of a  *)
(* 0-hour unfilled shift on a free day, and the call returns without it     *)
PreExclusionWitness ==
    \E c \in Calls : \E e \in ProfiledEmployees : \E i \in UnfilledIdx :
        /\ Cardinality(DaysIn(latest_snapshot, e)) = DaysLimit
        /\ HoursIn(latest_snapshot, e) < HoursLimit
        /\ \A d \in Days : CountIn(latest_snapshot, e, d) <= DailyLimit
        /\ latest_snapshot[i].ShiftDurationHours = 0
        /\ latest_snapshot[i].DayNum \notin DaysIn(latest_snapshot, e)
        /\ \A o \in ProfiledEmployees \ {e} : ScoreOf(o, i) < ScoreOf(e, i)
        /\ e \notin MappedEmployees(c.assignments)

(* the scenario of C7: one unfilled shift i, a profiled employee a whom the *)
(* shift would take over 40 hours, a profiled employee b without filled     *)
(* shifts                                                                   *)
OverCapScenario(a, b, i) ==
    /\ UnfilledIdx = {i}
    /\ a # b
    /\ HoursIn(latest_snapshot, a) + latest_snapshot[i].ShiftDurationHours > HoursLimit
    /\ HoursIn(latest_snapshot, b) = 0
    /\ RowsOf(latest_snapshot, b) = {}

(* C7 as stated: in the scenario the shift goes to b, whatever the scores   *)
OverCapGoesToOther ==
    \A c \in Calls : \A a \in ProfiledEmployees, b \in ProfiledEmployees :
        \A i \in UnfilledIdx :
            OverCapScenario(a, b, i) =>
                /\ DictHas(c.assignments, shift_id_of(latest_snapshot[i]))
                /\ c.assignments.val[shift_id_of(latest_snapshot[i])] = b

(* C7 amended: in the scenario, with a and b the two profiled employees,    *)
(* the shift is never given to a, and it is given to b whenever b's score   *)
(* for it is positive (with a score of 0 it may stay unassigned).           *)
OverCapGoesToOtherIfScored ==
    \A c \in Calls : \A a \in ProfiledEmployees, b \in ProfiledEmployees :
        \A i \in UnfilledIdx :
            OverCapScenario(a, b, i) /\ ProfiledEmployees = {a, b} =>
                /\ a \notin MappedEmployees(c.assignments)
                /\ ScoreOf(b, i) > 0 =>
                       /\ DictHas(c.assignments, shift_id_of(latest_snapshot[i]))
                       /\ c.assignments.val[shift_id_of(latest_snapshot[i])] = b

(* a at 38 hours scores higher than b on an 8-hour shift, and b gets it *)
OverCapGoesToOtherWitness ==
    \E c \in Calls : \E a \in ProfiledEmployees, b \in ProfiledEmployees :
        \E i \in UnfilledIdx :
            /\ OverCapScenario(a, b, i)
            /\ HoursIn(latest_snapshot, a) = 38
            /\ latest_snapshot[i].ShiftDurationHours = 8
            /\ ScoreOf(a, i) > ScoreOf(b, i)
            /\ ScoreOf(b, i) > 0
            /\ c.assignments.val = (shift_id_of(latest_snapshot[i]) :> b)

----------------------------------------------------------------------------
(* what a report names: the employees over the hours limit, over the days   *)
(* limit, and the (employee, day) pairs over the daily limit                *)
ReportedHours(report) == {v.employee : v \in Range(report.violations.weekly_hours)}

ReportedDays(report) == {v.employee : v \in Range(report.violations.work_days)}

ReportedDaily(report) ==
    {<<v.employee, v.day>> : v \in Range(report.violations.daily_shifts)}

(* C8: every violation validate_constraints reports on the result of        *)
(* fill_unfilled_shifts was already reported on the input snapshot, and a   *)
(* snapshot that validates as valid stays valid after filling.              *)
FillCreatesNoViolation ==
    pc = "done" =>
        LET before == validate_constraints(latest_snapshot)
        IN  /\ ReportedHours(constraint_validation) \subseteq ReportedHours(before)
            /\ ReportedDays(constraint_validation) \subseteq ReportedDays(before)
            /\ ReportedDaily(constraint_validation) \subseteq ReportedDaily(before)
            /\ before.valid => constraint_validation.valid

(* shifts were filled in a snapshot that already had a violation, and in    *)
(* this run the employees who got shifts are reported for nothing           *)
FillCreatesNoViolationWitness ==
    /\ pc = "done"
    /\ filled_snapshot # latest_snapshot
    /\ ~validate_constraints(latest_snapshot).valid
    /\ constraint_validation.total_violations
           = validate_constraints(latest_snapshot).total_violations
    /\ \E i \in UnfilledIdx :
           /\ filled_snapshot[i].EmployeeNumber # NaN
           /\ filled_snapshot[i].EmployeeNumber \notin ReportedHours(constraint_validation)
           /\ HoursIn(filled_snapshot, filled_snapshot[i].EmployeeNumber) = HoursLimit

(* the report of validate_constraints on rows is exact *)
ExactReport(rows, report) ==
    /\ ReportedHours(report) = {e \in EmployeesIn(rows) : HoursIn(rows, e) > HoursLimit}
    /\ ReportedDays(report) =
           {e \in EmployeesIn(rows) : Cardinality(DaysIn(rows, e)) > DaysLimit}
    /\ ReportedDaily(report) =
           {k \in EmployeesIn(rows) \X Days : CountIn(rows, k[1], k[2]) > DailyLimit}
    /\ Len(report.violations.weekly_hours) = Cardinality(ReportedHours(report))
    /\ Len(report.violations.work_days) = Cardinality(ReportedDays(report))
    /\ Len(report.violations.daily_shifts) = Cardinality(ReportedDaily(report))
    /\ report.valid <=> /\ report.violations.weekly_hours = <<>>
                        /\ report.violations.work_days = <<>>
                        /\ report.violations.daily_shifts = <<>>
    /\ report.total_violations = Len(report.violations.weekly_hours)
                                   + Len(report.violations.work_days)
                                   + Len(report.violations.daily_shifts)

(* C9: validate_constraints reports exactly the employees whose filled      *)
(* hours exceed 40, exactly those whose distinct days exceed 5 and exactly  *)
(* the (employee, day) pairs with more than one filled shift, each once;    *)
(* valid holds iff the three lists are empty; rows without employee are     *)
(* ignored; and the validated shift set is left as it was.                  *)
ValidatorIsExact ==
    /\ [](pc = "done" => ExactReport(filled_snapshot, constraint_validation))
    /\ [][pc = "validate" => filled_snapshot' = filled_snapshot]_vars

(* a validated snapshot with an unfilled row left, one employee over hours  *)
(* only, one over days only, and one at exactly 40 hours who is not named   *)
ValidatorIsExactWitness ==
    /\ pc = "done"
    /\ \E i \in DOMAIN filled_snapshot : filled_snapshot[i].EmployeeNumber = NaN
    /\ ReportedHours(constraint_validation) # {}
    /\ ReportedDays(constraint_validation) # {}
    /\ ReportedHours(constraint_validation) \cap ReportedDays(constraint_validation) = {}
    /\ ReportedDaily(constraint_validation) = {}

(* C10: with no unfilled shift, solve_assignment returns (it does not      *)
(* raise), returns an empty mapping, creates no variable and neither builds *)
(* nor solves a problem, and fill_unfilled_shifts returns the snapshot      *)
(* unchanged.                                                               *)
EmptyInputSkipsProblem ==
    UnfilledIdx = {} =>
        /\ pc # "raised"
        /\ \A c \in Calls :
               /\ c.assignments = EmptyDict
               /\ c.log.n_x = 0 /\ c.log.n_day = 0
               /\ ~c.log.built /\ ~c.log.solved
        /\ pc \in {"validate", "done"} => filled_snapshot = latest_snapshot

----------------------------------------------------------------------------
(* C11: whenever prob.solve() ends with a status other than Optimal         *)
(* (infeasible, unbounded, undefined, not solved), solve_assignment returns *)
(* an empty mapping, whatever the variables hold; only an Optimal status    *)
(* produces a non-empty mapping.                                            *)
NonOptimalYieldsEmpty ==
    \A c \in Calls :
        (c.log.solved /\ c.log.status # StatusOptimal) => c.assignments = EmptyDict

(* the employees whose variable for shift sid is set and above 0.5 *)
AboveHalf(c, sid) ==
    {k[1] : k \in {kk \in DOMAIN c.varValue :
                      /\ kk[2] = sid
                      /\ c.varValue[kk] # None
                      /\ c.varValue[kk] > Half}}

(* C20: whenever the extraction runs, a shift is in the mapping exactly     *)
(* when some employee's variable for it is set and greater than 0.5, and it *)
(* is mapped to the lowest-numbered such employee (the first met), so the   *)
(* mapping has one employee per shift.                                      *)
ExtractionFirstWins ==
    \A c \in Calls :
        (c.log.solved /\ c.log.status # StatusInfeasible) =>
            /\ UniqueSeq(c.assignments.keys) = c.assignments.keys
            /\ Range(c.assignments.keys) \subseteq {k[2] : k \in DOMAIN c.varValue}
            /\ \A sid \in {k[2] : k \in DOMAIN c.varValue} :
                   /\ DictHas(c.assignments, sid) <=> AboveHalf(c, sid) # {}
                   /\ AboveHalf(c, sid) # {} =>
                          /\ c.assignments.val[sid] \in AboveHalf(c, sid)
                          /\ \A e \in AboveHalf(c, sid) : c.assignments.val[sid] <= e

(* two employees above 0.5 for one shift, the lower one mapped; a variable  *)
(* at exactly 0.5 and an unset one leave another shift unmapped             *)
ExtractionFirstWinsWitness ==
    \E c \in Calls :
        /\ c.log.solved /\ c.log.status # StatusInfeasible
        /\ \E s1 \in Range(c.assignments.keys), s2 \in {k[2] : k \in DOMAIN c.varValue} :
               /\ AboveHalf(c, s1) = {1, 2}
               /\ c.assignments.val[s1] = 1
               /\ c.varValue[<<2, s1>>] = Half + 1
               /\ ~DictHas(c.assignments, s2)
               /\ c.varValue[<<1, s2>>] = Half
               /\ c.varValue[<<2, s2>>] = None

(* the arguments of a call of solve_assignment, read back from the snapshot *)
CallShiftIds(c) ==
    LET unfilled == SelectSeq(latest_snapshot, LAMBDA r : r.EmployeeNumber = NaN)
        rows == IF c.caller = "fill" THEN drop_duplicates(unfilled) ELSE unfilled
    IN  [i \in DOMAIN rows |-> shift_id_of(rows[i])]

CallAccumulator ==
    accumulate(SelectSeq(latest_snapshot, LAMBDA r : r.EmployeeNumber # NaN))

CallValidEmployees == valid_employees_of(CallAccumulator, SortedSeq(ProfiledEmployees))

(* C19: the program solve_assignment builds is always feasible: with every  *)
(* decision variable and every day indicator at 0, C1-C4 hold for the       *)
(* employees left after pre-exclusion, and the solver never answers         *)
(* Infeasible.                                                              *)
ZeroIsFeasible ==
    \A c \in Calls :
        c.log.built =>
            LET V  == CallValidEmployees
                S  == CallShiftIds(c)
                zx == [k \in Range(V) \X Range(S) |-> 0]
                zd == [k \in Range(V) \X {s[2] : s \in Range(S)} |-> 0]
                durations ==
                    [s \in Range(S) |->
                        latest_snapshot[CHOOSE i \in UnfilledIdx :
                            shift_id_of(latest_snapshot[i]) = s].ShiftDurationHours]
            IN  /\ constraint_one_assignee(zx, V, S)
                /\ constraint_weekly_hours(zx, CallAccumulator, V, S, durations)
                /\ constraint_day_link(zx, zd, V, S)
                /\ constraint_work_days(zd, CallAccumulator, V, S)
                /\ constraint_daily_shift(zx, CallAccumulator, V, S)
                /\ c.log.status # StatusInfeasible

(* a program was built while one employee was pre-excluded and the other    *)
(* held filled shifts on the day of an unfilled shift, and nothing could be *)
(* assigned                                                                 *)
ZeroIsFeasibleWitness ==
    \E c \in Calls :
        /\ c.log.built /\ c.log.n_x > 0
        /\ c.log.status = StatusOptimal
        /\ c.assignments = EmptyDict
        /\ \E e \in ProfiledEmployees : PreExcluded(e)
        /\ \E e \in Assignable, i \in UnfilledIdx :
               /\ CountIn(latest_snapshot, e, latest_snapshot[i].DayNum) = 1
               /\ latest_snapshot[i].ShiftDurationHours > 0

(* the mapping the solver returned to fill_unfilled_shifts, empty if it was *)
(* not called                                                               *)
FillMapping ==
    IF \E c \in Calls : c.caller = "fill"
    THEN (CHOOSE c \in Calls : c.caller = "fill").assignments
    ELSE EmptyDict

(* what fill_unfilled_shifts may do to row a of the input to give row b *)
FilledFrom(a, b) ==
    /\ [b EXCEPT !.EmployeeNumber = a.EmployeeNumber, !.IsUnfilled = a.IsUnfilled] = a
    /\ a.EmployeeNumber # NaN => b = a
    /\ b # a => /\ a.EmployeeNumber = NaN
                /\ DictHas(FillMapping, shift_id_of(a))
                /\ b.EmployeeNumber = FillMapping.val[shift_id_of(a)]
                /\ b.IsUnfilled = FALSE
    /\ b.IsUnfilled <=> b.EmployeeNumber = NaN

(* C12: the result of fill_unfilled_shifts has the rows of the input; a row *)
(* filled in the input is unchanged; a row that differs was unfilled, now   *)
(* carries the employee the solver mapped to its (ScheduleDetailID, DayNum) *)
(* and has IsUnfilled false; IsUnfilled equals 'employee is null' on every  *)
(* row; and the snapshot passed in is left as it was.                       *)
FillChangesOnlyAssignedRows ==
    /\ [](pc \in {"validate", "done"} =>
            /\ Len(filled_snapshot) = Len(latest_snapshot)
            /\ \A i \in DOMAIN latest_snapshot :
                   FilledFrom(latest_snapshot[i], filled_snapshot[i]))
    /\ [][pc = "fill" => latest_snapshot' = latest_snapshot]_vars

(* the fill gave one unfilled row an employee, left another unfilled, and   *)
(* the snapshot holds filled rows too                                      *)
FillChangesOnlyAssignedRowsWitness ==
    /\ pc = "validate"
    /\ \E i \in UnfilledIdx, j \in UnfilledIdx :
           /\ filled_snapshot[i].EmployeeNumber # NaN
           /\ ~filled_snapshot[i].IsUnfilled
           /\ filled_snapshot[j] = latest_snapshot[j]
    /\ \E i \in DOMAIN latest_snapshot : latest_snapshot[i].EmployeeNumber # NaN

----------------------------------------------------------------------------
(* row r of the result stems from row a as loaded: a's columns are kept *)
StemsFrom(r, a) == \A c \in DOMAIN a : r[c] = a[c]

(* C13 as stated: after preprocess_schedule at most one row exists per      *)
(* (ScheduleDetailID, DayNum), and the surviving row of each group of       *)
(* duplicates is the first in input order, for both by_date settings.       *)
OneRowPerDetailAndDay ==
    pc = "preprocessed" =>
        LET out == preprocessed.df
            first == {i \in DOMAIN raw_df :
                        \A j \in DOMAIN raw_df :
                            j < i => \/ raw_df[j].ScheduleDetailID # raw_df[i].ScheduleDetailID
                                     \/ raw_df[j].DayNum # raw_df[i].DayNum}
        IN  /\ \A i, j \in DOMAIN out :
                   (/\ out[i].ScheduleDetailID = out[j].ScheduleDetailID
                    /\ out[i].DayNum = out[j].DayNum) => i = j
            /\ Len(out) = Cardinality(first)
            /\ \A n \in DOMAIN out : StemsFrom(out[n], raw_df[SortedSeq(first)[n]])

(* the columns deduplicate_schedule_details groups by *)
GroupOf(r) ==
    IF preprocessed.by_date /\ has_column(raw_df, "date")
    THEN <<r.date, r.ScheduleDetailID, r.DayNum>>
    ELSE <<r.ScheduleDetailID, r.DayNum>>

(* C13 amended: after preprocess_schedule at most one row exists per        *)
(* (date, ScheduleDetailID, DayNum) when by_date is set and the rows have a *)
(* date column, and per (ScheduleDetailID, DayNum) otherwise (so also when  *)
(* all rows carry one date); the survivor of each group is its first row in *)
(* input order, and the survivors keep their input order.                   *)
OneRowPerGroup ==
    pc = "preprocessed" =>
        LET out == preprocessed.df
            first == {i \in DOMAIN raw_df :
                        \A j \in DOMAIN raw_df :
                            j < i => GroupOf(raw_df[j]) # GroupOf(raw_df[i])}
        IN  /\ \A i, j \in DOMAIN out : GroupOf(out[i]) = GroupOf(out[j]) => i = j
            /\ Len(out) = Cardinality(first)
            /\ \A n \in DOMAIN out : StemsFrom(out[n], raw_df[SortedSeq(first)[n]])
            /\ (\A i, j \in DOMAIN raw_df : has_column(raw_df, "date") =>
                                               raw_df[i].date = raw_df[j].date)
                   => \A i, j \in DOMAIN out :
                          (/\ out[i].ScheduleDetailID = out[j].ScheduleDetailID
                           /\ out[i].DayNum = out[j].DayNum) => i = j

(* by_date with two dates: the same detail and day survives once per date,  *)
(* each time with the first of its rows, and a later duplicate is dropped   *)
OneRowPerGroupWitness ==
    /\ pc = "preprocessed"
    /\ preprocessed.by_date
    /\ has_column(raw_df, "date")
    /\ Len(raw_df) = 3 /\ Len(preprocessed.df) = 2
    /\ raw_df[1].date = raw_df[2].date /\ raw_df[1].date # raw_df[3].date
    /\ raw_df[1].DayNum = raw_df[2].DayNum /\ raw_df[1].DayNum = raw_df[3].DayNum
    /\ raw_df[1].EmployeeNumber # raw_df[2].EmployeeNumber
    /\ preprocessed.df[1].EmployeeNumber = raw_df[1].EmployeeNumber
    /\ preprocessed.df[2].date = raw_df[3].date

----------------------------------------------------------------------------
ProfileDims == {"Day", "Time", "Duration", "Job", "ShiftType"}

(* C14: in every profile built by compute_compatibility, for each of the    *)
(* five dimensions the per-category counts sum to the employee's total      *)
(* historical shift count (the probabilities sum to 1), and every           *)
(* probability count / total is a float between 0 and 1.                    *)
DistributionsSumToOne ==
    pc \in {"score", "scored"} =>
        \A j \in DOMAIN employee_profiles :
            LET p == employee_profiles[j]
            IN  /\ p.TotalShifts >= 1
                /\ \A dim \in ProfileDims :
                       /\ SumOver(DOMAIN p[dim], p[dim]) = p.TotalShifts
                       /\ \A v \in DOMAIN p[dim] :
                              /\ p[dim][v] \in 0..p.TotalShifts
                              /\ FLeq(FZero, profile_prob(p, dim, v))
                              /\ FLeq(profile_prob(p, dim, v), FOne)

(* an employee with two historical shifts on two days, and a third day the  *)
(* other employee alone has worked                                          *)
DistributionsSumToOneWitness ==
    /\ pc = "score"
    /\ \E j \in DOMAIN employee_profiles :
           LET p == employee_profiles[j]
           IN  /\ p.TotalShifts = 2
               /\ \E a, b, c \in DOMAIN p.Day :
                      p.Day[a] = 1 /\ p.Day[b] = 1 /\ p.Day[c] = 0

(* C15: for every profile built by compute_compatibility and every shift,   *)
(* get_compatibility_score returns a value in [0, 1].                       *)
ScoreInUnitInterval ==
    pc = "scored" =>
        /\ FLeq(FZero, score_log.score_float)
        /\ FLeq(score_log.score_float, FOne)

(* the filled historical rows of employee e, with their features *)
HistoryOf(e) ==
    {extract_shift_features(historical_data[i]) :
        i \in {k \in DOMAIN historical_data : historical_data[k].EmployeeNumber = e}}

(* the terms of the weighted sum for the scored employee and shift: the     *)
(* share of the employee's historical shifts that have the shift's value in *)
(* column col, times the weight (a percentage) and ProbDen                  *)
ReferenceTerm(w, col) ==
    LET mine == HistoryOf(score_log.employee)
        same == {r \in mine : r[col] = score_log.shift[col]}
    IN  IF same = {} THEN 0
        ELSE (w * Cardinality(same) * ProbDen) \div Cardinality(mine)

ReferenceFloatTerm(lit, col) ==
    LET mine == HistoryOf(score_log.employee)
        same == {r \in mine : r[col] = score_log.shift[col]}
    IN  FMul(FDivNat(lit[1], lit[2]), FDivNat(Cardinality(same), Cardinality(mine)))

(* C16: get_compatibility_score equals 0.30*P_day + 0.25*P_time +           *)
(* 0.15*P_duration + 0.20*P_job + 0.10*P_shifttype, P being the employee's  *)
(* share of historical shifts with the shift's value in the dimension; a    *)
(* value without column in the profile, or with probability 0, makes its    *)
(* term exactly 0.  Stated for the exact value and for the float returned.  *)
ScoreIsWeightedSum ==
    pc = "scored" =>
        /\ score_log.score = ReferenceTerm(30, "DayNum")
                               + ReferenceTerm(25, "ShiftTimeCategory")
                               + ReferenceTerm(15, "ShiftDurationCategory")
                               + ReferenceTerm(20, "JobNumber")
                               + ReferenceTerm(10, "ShiftType")
        /\ score_log.score_float =
               FAdd(FAdd(FAdd(FAdd(ReferenceFloatTerm(<<30, 100>>, "DayNum"),
                                   ReferenceFloatTerm(<<25, 100>>, "ShiftTimeCategory")),
                              ReferenceFloatTerm(<<15, 100>>, "ShiftDurationCategory")),
                         ReferenceFloatTerm(<<20, 100>>, "JobNumber")),
                    ReferenceFloatTerm(<<10, 100>>, "ShiftType"))

(* a shift on a day the employee never worked but the other employee did    *)
(* (probability 0), at a time no employee worked (no column), for a job the *)
(* employee worked in one of two shifts: the score is 0.20 * 1/2            *)
ScoreIsWeightedSumWitness ==
    /\ pc = "scored"
    /\ \E j \in DOMAIN employee_profiles :
           LET p == employee_profiles[j]
           IN  /\ p.EmployeeNumber = score_log.employee
               /\ p.TotalShifts = 2
               /\ score_log.shift.DayNum \in DOMAIN p.Day
               /\ p.Day[score_log.shift.DayNum] = 0
               /\ score_log.shift.ShiftTimeCategory \notin DOMAIN p.Time
               /\ score_log.shift.JobNumber \in DOMAIN p.Job
               /\ p.Job[score_log.shift.JobNumber] = 1
    /\ score_log.score = 10 * ProbDen
    /\ score_log.score_float = FDivNat(1, 10)

(* C17: extract_shift_features applied to its own output yields the same    *)
(* time category, duration, duration category and shift type on every       *)
(* record; a duration already present is kept, not recomputed; and the      *)
(* frame given to a call is left as it was.                                 *)
FeaturesIdempotent ==
    /\ [](Len(feature_runs) >= 1 =>
            /\ Len(feature_runs[1]) = Len(feature_input)
            /\ \A i \in DOMAIN feature_input :
                   "ShiftDurationHours" \in DOMAIN feature_input[i] =>
                       feature_runs[1][i].ShiftDurationHours
                           = feature_input[i].ShiftDurationHours)
    /\ [](Len(feature_runs) >= 2 =>
            /\ Len(feature_runs[2]) = Len(feature_runs[1])
            /\ \A i \in DOMAIN feature_runs[1] :
                   \A c \in {"ShiftTimeCategory", "ShiftDurationHours",
                             "ShiftDurationCategory", "ShiftType"} :
                       feature_runs[2][i][c] = feature_runs[1][i][c])
    /\ [][feature_runs # <<>> =>
             /\ feature_input' = feature_input
             /\ feature_runs'[1] = feature_runs[1]
             /\ raw_df' = raw_df
             /\ historical_data' = historical_data]_vars

(* two applications to rows that brought a duration of their own, other     *)
(* than the one their start and end times give, and no parsed start time    *)
FeaturesIdempotentWitness ==
    /\ Len(feature_runs) = 2
    /\ feature_input # <<>>
    /\ \A i \in DOMAIN feature_input :
           /\ "ShiftDurationHours" \in DOMAIN feature_input[i]
           /\ "ShiftStartTime_parsed" \notin DOMAIN feature_input[i]
           /\ feature_input[i].ShiftDurationHours # calculate_hours(feature_input[i])
           /\ feature_runs[2][i].ShiftDurationHours = feature_input[i].ShiftDurationHours

FilledRowsOf(snapshot) == SelectSeq(snapshot, LAMBDA row : row.EmployeeNumber # NaN)

(* the mappings solve_assignment returns for these arguments *)
MappingsOf(unfilled_shifts, profiles, filled_shifts) ==
    {o.assignments : o \in {o \in solve_assignment(unfilled_shifts, profiles,
                                                    filled_shifts) : ~o.raised}}

(* C18: however the /assign requests interleave, a solve writes nothing     *)
(* another request can observe: each cache, once set, holds what the load   *)
(* put there (the profiles of the history, the processed latest snapshot)   *)
(* and no step changes it; every solve is given the filled shifts of the    *)
(* snapshot as loaded, whatever other requests were answered before or      *)
(* meanwhile, and its mapping is one solve_assignment returns for its own   *)
(* arguments alone.                                                         *)
SolvesShareNothing ==
    /\ [](/\ profiles_cache.set =>
               profiles_cache.value = compute_compatibility(historical_data)
          /\ snapshot_cache.set => snapshot_cache.value = latest_snapshot
          /\ \A r \in Requests :
                 req[r].call.called =>
                     /\ req[r].call.filled_shifts = FilledRowsOf(latest_snapshot)
                     /\ req[r].call.assignments
                            \in MappingsOf(req[r].call.unfilled_shift, employee_profiles,
                                           req[r].call.filled_shifts))
    /\ [][/\ profiles_cache.set => profiles_cache' = profiles_cache
          /\ snapshot_cache.set => snapshot_cache' = snapshot_cache
          /\ data_cache.set => data_cache' = data_cache]_vars

(* both requests were answered with an assignment, for two different cells, *)
(* of the same employee, who has 32 hours in the snapshot: had the first    *)
(* assignment been visible to the second solve, 40 hours would have barred  *)
(* the employee from the second cell                                        *)
SolvesShareNothingWitness ==
    /\ \A r \in Requests : /\ req[r].pc = "done"
                           /\ req[r].call.called
                           /\ req[r].response.status = "assigned"
    /\ req[1].call.unfilled_shift # req[2].call.unfilled_shift
    /\ req[1].response.employee_number = req[2].response.employee_number
    /\ HoursIn(latest_snapshot, req[1].response.employee_number) = 32

(* the column of the featured history a profile dimension is counted from *)
DimColumn ==
    [Day |-> "DayNum", Time |-> "ShiftTimeCategory", Duration |-> "ShiftDurationCategory",
     Job |-> "JobNumber", ShiftType |-> "ShiftType"]

(* positions of the filled rows of the history, and those of employee e *)
FilledHistory == {i \in DOMAIN historical_data : historical_data[i].EmployeeNumber # NaN}

HistoryRowsOf(e) == {i \in FilledHistory : historical_data[i].EmployeeNumber = e}

(* C21: compute_compatibility returns exactly one profile per employee with *)
(* at least one filled historical shift and none for any other employee;    *)
(* every profile has, in each dimension, an entry for every category value  *)
(* observed for any employee in the history and for no other value; the     *)
(* entry is the employee's count for the category over the employee's       *)
(* total shift count, which is 0 when the employee never worked it.         *)
OneProfilePerWorkedEmployee ==
    pc \in {"score", "scored"} =>
        /\ {employee_profiles[j].EmployeeNumber : j \in DOMAIN employee_profiles}
               = {historical_data[i].EmployeeNumber : i \in FilledHistory}
        /\ \A j, k \in DOMAIN employee_profiles :
               employee_profiles[j].EmployeeNumber = employee_profiles[k].EmployeeNumber
                   => j = k
        /\ \A j \in DOMAIN employee_profiles :
               LET p == employee_profiles[j]
                   mine == HistoryRowsOf(p.EmployeeNumber)
               IN  /\ p.TotalShifts = Cardinality(mine)
                   /\ \A dim \in ProfileDims :
                          /\ DOMAIN p[dim] =
                                 {extract_shift_features(historical_data[i])[DimColumn[dim]] :
                                     i \in FilledHistory}
                          /\ \A v \in DOMAIN p[dim] :
                                 LET worked ==
                                         {i \in mine :
                                             extract_shift_features(historical_data[i])
                                                 [DimColumn[dim]] = v}
                                 IN  /\ p[dim][v] = Cardinality(worked)
                                     /\ worked = {} => profile_prob(p, dim, v) = FZero

(* a history with an unfilled row in which both employees have shifts, one  *)
(* of them on a day, at a time and for a job the other never worked: each   *)
(* has one profile, and the first has entries of 0 for the other's values   *)
OneProfilePerWorkedEmployeeWitness ==
    /\ pc = "score"
    /\ Len(employee_profiles) = 2
    /\ \E i \in DOMAIN historical_data : historical_data[i].EmployeeNumber = NaN
    /\ \E j \in DOMAIN employee_profiles :
           LET p == employee_profiles[j]
           IN  /\ \E v \in DOMAIN p.Day : p.Day[v] = 0
               /\ \E v \in DOMAIN p.Time : p.Time[v] = 0
               /\ \E v \in DOMAIN p.Job : p.Job[v] = 0
               /\ \E v \in DOMAIN p.Job : p.Job[v] = p.TotalShifts

ShiftTypes ==
    { "morning_short", "morning_medium", "morning_long",
      "afternoon_short", "afternoon_medium", "afternoon_long",
      "evening_short", "evening_medium", "evening_long",
      "night_short", "night_medium", "night_long" }

(* C22: extract_shift_features classifies by start hour h: morning when     *)
(* 6 <= h < 12, afternoon when 12 <= h < 18, evening when 18 <= h < 22,     *)
(* night otherwise; by duration: short when <= 6 hours, medium when > 6 and *)
(* <= 10, long when > 10; the shift type is the time category, "_" and the  *)
(* duration category, one of the 12 shift types.  h is the start hour of    *)
(* the row given, the duration the row's own or the one from its times.     *)
FeaturesClassified ==
    \A n \in DOMAIN feature_runs : \A i \in DOMAIN feature_runs[n] :
        LET row == feature_runs[n][i]
            h == feature_input[i].StartHour
            d == row.ShiftDurationHours
        IN  /\ row.ShiftTimeCategory =
                   (IF h \in 6..11 THEN "morning"
                    ELSE IF h \in 12..17 THEN "afternoon"
                    ELSE IF h \in 18..21 THEN "evening"
                    ELSE "night")
            /\ d = (IF "ShiftDurationHours" \in DOMAIN feature_input[i]
                    THEN feature_input[i].ShiftDurationHours
                    ELSE (feature_input[i].EndHour + 24 - h) % 24)
            /\ row.ShiftDurationCategory =
                   (IF d <= 6 THEN "short" ELSE IF d > 6 /\ d <= 10 THEN "medium"
                    ELSE "long")
            /\ d > 10 <=> row.ShiftDurationCategory = "long"
            /\ row.ShiftType = row.ShiftTimeCategory \o "_" \o row.ShiftDurationCategory
            /\ row.ShiftType \in ShiftTypes

(* a shift as loaded that starts at 18:00 and ends at 04:00: evening at the *)
(* lower end of its interval, medium at the upper end of its interval       *)
FeaturesClassifiedWitness ==
    /\ Len(feature_runs) = 2
    /\ "ShiftDurationHours" \notin DOMAIN feature_input[1]
    /\ feature_input[1].StartHour = 18
    /\ feature_input[1].EndHour = 4
    /\ feature_runs[2][1].ShiftType = "evening_medium"

(* C23: a shift record that lacks ShiftDurationHours, DayNum or             *)
(* EmployeeNumber makes the call fail instead of returning a result:        *)
(* solve_assignment raises when a shift of either of its frames lacks one   *)
(* of them, validate_constraints when a shift of its snapshot does.         *)
MissingFieldAborts ==
    /\ checks.solve.done =>
           ((\E f \in CheckedFields :
                lacks(checks.unfilled_shifts, f) \/ lacks(checks.shift_set, f))
               => checks.solve.raised)
    /\ checks.post.done =>
           ((\E f \in CheckedFields : lacks(checks.shift_set, f))
               => checks.post.raised)

Aggregates == {"employee_week_hours", "employee_week_days", "employee_day_shifts"}

(* C27: on every shift set (a frame that has the columns) both              *)
(* validate_filled_shifts_constraints and validate_constraints return, and  *)
(* they return the same valid flag, the same three violation lists and the  *)
(* same total; the hours, distinct days and per-day counts either reports   *)
(* per employee are those solve_assignment accumulates from the same shifts *)
(* as its filled shifts.  On a frame that lacks a column the two fail       *)
(* together, but for the frame without rows and without EmployeeNumber, on  *)
(* which only validate_constraints fails.                                   *)
PreCheckIsPostCheck ==
    /\ \A call \in {checks.pre, checks.post} :
           (call.done /\ Absent("filled") = {}) => ~call.raised
    /\ (checks.pre.done /\ checks.post.done) =>
           /\ \/ checks.pre.raised = checks.post.raised
              \/ /\ checks.shift_set = <<>>
                 /\ Absent("filled") = {"EmployeeNumber"}
                 /\ ~checks.pre.raised /\ checks.post.raised
           /\ (~checks.pre.raised /\ ~checks.post.raised) =>
                  /\ checks.pre.result.valid = checks.post.result.valid
                  /\ checks.pre.result.violations = checks.post.result.violations
                  /\ checks.pre.result.total_violations
                         = checks.post.result.total_violations
                  /\ \A a \in Aggregates :
                         (a \in DOMAIN checks.pre.result /\ a \in DOMAIN checks.post.result)
                             => checks.pre.result[a] = checks.post.result[a]
    /\ \A call \in {checks.pre, checks.post} :
           (/\ call.done /\ ~call.raised
            /\ checks.solve.done /\ ~checks.solve.raised
            /\ "employee_week_hours" \in DOMAIN call.result) =>
               LET acc == checks.solve.result.acc
               IN  /\ call.result.employee_week_hours = acc.employee_week_hours.val
                   /\ call.result.employee_week_days =
                          [k \in DOMAIN acc.employee_week_days.val |->
                              Cardinality(acc.employee_week_days.val[k])]
                   /\ call.result.employee_day_shifts = acc.employee_day_shifts.val

(* the three calls returned on a set with unfilled rows among the filled    *)
(* ones, in which one employee has two shifts on a day and the other works  *)
(* six days: both checks report the same two violations                     *)
PreCheckIsPostCheckWitness ==
    /\ checks.pre.done /\ ~checks.pre.raised
    /\ checks.post.done /\ ~checks.post.raised
    /\ checks.solve.done /\ ~checks.solve.raised
    /\ \E i \in DOMAIN checks.shift_set : checks.shift_set[i].EmployeeNumber = NaN
    /\ checks.pre.result.total_violations = 2
    /\ Len(checks.post.result.violations.daily_shifts) = 1
    /\ Len(checks.post.result.violations.work_days) = 1
    /\ \A a \in Aggregates : a \in DOMAIN checks.post.result

(* the day indicators of employee e that the solved program of call c set *)
DaysIndicated(c, e) == {k \in DOMAIN c.day_vars : k[1] = e /\ c.day_vars[k] = 1}

(* C26: in every mapping returned by solve_assignment no employee is given  *)
(* an unfilled shift on a day on which the employee has a filled shift; so  *)
(* the count the day cap adds up, the distinct days of the filled shifts    *)
(* plus the day indicators set, is the size of the union of the days of the *)
(* filled shifts and the days of the shifts given.                          *)
NoAssignmentOnWorkedDay ==
    \A c \in Calls : \A e \in MappedEmployees(c.assignments) :
        /\ DaysIn(latest_snapshot, e) \cap NewDays(c.assignments, e) = {}
        /\ Cardinality(DaysIn(latest_snapshot, e)) + Cardinality(DaysIndicated(c, e))
               = Cardinality(DaysIn(latest_snapshot, e) \cup NewDays(c.assignments, e))

(* an employee with a filled shift on the day of an unfilled shift is       *)
(* given an unfilled shift of another day, not that one                     *)
NoAssignmentOnWorkedDayWitness ==
    \E c \in Calls : \E e \in MappedEmployees(c.assignments) :
        \E i \in UnfilledIdx, j \in UnfilledIdx :
            /\ latest_snapshot[i].DayNum \in DaysIn(latest_snapshot, e)
            /\ latest_snapshot[j].DayNum \notin DaysIn(latest_snapshot, e)
            /\ j \in GivenTo(c.assignments, e)
            /\ Cardinality(DaysIn(latest_snapshot, e)) >= 2

(* the requests that have returned from _load_and_cache_data and not yet    *)
(* looked at what it returned                                               *)
JustLoaded == {r \in Requests : req[r].pc = "find"}

(* C24: every call of _load_and_cache_data, also one that runs while the    *)
(* first is still loading, returns employee profiles and a latest snapshot  *)
(* that are not None, and the cache is built once: no thread is about to    *)
(* build it when _data_cache is already set.                                *)
LoadReturnsPopulated ==
    /\ \A r \in JustLoaded : req[r].employee_profiles /\ req[r].latest_snapshot
    /\ \A r \in Requests : req[r].pc = "loading" => ~data_cache.set

(* the requests answered with an assignment *)
Assigned == {r \in Requests : req[r].pc = "done" /\ req[r].response.status = "assigned"}

(* requests that came in one after the other's answer, for distinct cells *)
InSequence(S) ==
    \A a \in S, b \in S :
        a # b => /\ a \in req[b].after \/ b \in req[a].after
                 /\ req[a].call.unfilled_shift # req[b].call.unfilled_shift

(* the cells the requests of S were answered with employee e for *)
CellsGiven(S, e) == {r \in S : req[r].response.employee_number = e}

CellOf(r) == req[r].call.unfilled_shift[1]

(* C25: for any sequence of /assign requests for distinct unfilled cells,   *)
(* the filled shifts of the cached snapshot together with the assignments   *)
(* returned so far respect the 40-hour, 5-day and 1-shift-per-day caps for  *)
(* every employee whose filled shifts do not violate them already.          *)
AnswersRespectCaps ==
    InSequence(Assigned) =>
        \A e \in Employees :
            LET given == CellsGiven(Assigned, e)
                hours == HoursIn(latest_snapshot, e)
                days == DaysIn(latest_snapshot, e)
            IN  (/\ hours <= HoursLimit
                 /\ Cardinality(days) <= DaysLimit
                 /\ \A d \in Days : CountIn(latest_snapshot, e, d) <= DailyLimit) =>
                    /\ hours + SumOver(given, [r \in given |-> CellOf(r).ShiftDurationHours])
                           <= HoursLimit
                    /\ Cardinality(days \cup {CellOf(r).DayNum : r \in given}) <= DaysLimit
                    /\ \A d \in Days :
                           CountIn(latest_snapshot, e, d)
                             + Cardinality({r \in given : CellOf(r).DayNum = d}) <= DailyLimit

====
